---- MODULE Spec2Model ----
(***************************************************************************)
(* Trajectory assembly, validation and deduplication pipeline of the       *)
(* synthetic browser-trajectory generator (src/python).                    *)
(*                                                                         *)
(* Time is counted in integer milliseconds; an offset the code computes in *)
(* seconds is carried as seconds * 1000.  A trajectory's duration          *)
(* ((end_time - start_time) / 1000.0 in the code) is carried in the same   *)
(* millisecond unit, which keeps its sign and its zero.                    *)
(*                                                                         *)
(* A JSON value coming from the action-structure source is a tagged        *)
(* record: Null, Str(s), Num(n), Bool(b).  A dict is a function from keys  *)
(* to such values; an absent key is a key outside its DOMAIN.              *)
(***************************************************************************)
EXTENDS Integers, Sequences, FiniteSets, TLC

VARIABLES
    call,           \* TrajSpec: the inputs of one generate_trajectory call
    outcome,        \* TrajSpec: what that call returned or raised
    vin,            \* ValSpec: the Trajectory handed to validate_trajectory
    verdict,        \* ValSpec: its boolean result
    config,         \* Spec: the generator section of the configuration
    fut,            \* Spec: state of each submitted future
    result,         \* Spec: outcome stored in each finished future
    collected,      \* Spec: futures already yielded by as_completed
    trajectories,   \* Spec: generate_dataset's local list
    failed_count,   \* Spec: generate_dataset's local counter
    completed,      \* Spec: generate_dataset's local progress counter
    pc,             \* Spec: position of generate_dataset
    ret,            \* Spec: value returned by generate_dataset
    valid_trajectories,     \* MainSpec: main's list of validated trajectories
    invalid_trajectories,   \* MainSpec: main's list of rejected trajectories
    stats,          \* MainSpec: result of compute_dataset_statistics
    files,          \* MainSpec: content of the output files written so far
    exit_code,      \* MainSpec: "none" while main runs, then "0" or "1"
    mpc,            \* MainSpec: position of main
    rng,            \* RngSpec: state of the module-level random source
    draws           \* RngSpec: position of each pool task in its random draws

trajVars == <<call, outcome>>
valVars == <<vin, verdict>>
dsVars == <<config, fut, result, collected, trajectories, failed_count,
            completed, pc, ret>>
mainVars == <<valid_trajectories, invalid_trajectories, stats, files,
              exit_code, mpc>>
rngVars == <<rng, draws>>
vars == <<call, outcome, vin, verdict, config, fut, result, collected,
          trajectories, failed_count, completed, pc, ret,
          valid_trajectories, invalid_trajectories, stats, files,
          exit_code, mpc, rng, draws>>

----------------------------------------------------------------------------
(* Bounds of the model *)

\* n_trajectories of the modelled generate_dataset call
NTasks == 3
\* longest candidate list drawn freely from CandidatePool
MaxShort == 3
\* longest uniform candidate list (reaches past the 10-action limit)
MaxLong == 11
\* largest configured max_actions / num_actions override that is tried
MaxCfgActions == 12
\* deduplicate_trajectories is applied to lists of at most MaxDedup trajectories
MaxDedup == 3

----------------------------------------------------------------------------
(* JSON values *)

Null == [t |-> "null"]
Str(s) == [t |-> "str", v |-> s]
Num(n) == [t |-> "num", v |-> n]
Bool(b) == [t |-> "bool", v |-> b]

\* dict.get(key, default)
Get(d, k, default) == IF k \in DOMAIN d THEN d[k] ELSE default

\* Python truthiness of a JSON value
Truthy(x) ==
    CASE x.t = "null" -> FALSE
      [] x.t = "str"  -> x.v # ""
      [] x.t = "num"  -> x.v # 0
      [] x.t = "bool" -> x.v

\* `a or b`
PyOr(a, b) == IF Truthy(a) THEN a ELSE b

\* bool(x)
PyBool(x) == Truthy(x)

----------------------------------------------------------------------------
(* String helpers, tabulated over the strings the model uses *)

\* len(text.split())
WordCount(s) ==
    CASE s = "" -> 0
      [] s = "   " -> 0
      [] s = "hello world" -> 2
      [] OTHER -> 1

\* 'cart' in context.lower()
ContainsCart(s) == s \in {"Add to Cart", "view cart"}

\* f"test_{field_type}"
TestPlaceholder(field_type) ==
    CASE field_type = "text" -> "test_text"
      [] field_type = "email" -> "test_email"
      [] OTHER -> "test_field"

\* f"test_{field_type}@example.com" if field_type == "email" else f"test {field_type}"
TextFallback(field_type) ==
    CASE field_type = "email" -> "test_email@example.com"
      [] field_type = "text" -> "test text"
      [] OTHER -> "test field"

----------------------------------------------------------------------------
(* Temporal Behavior Model (utils.py).  A random draw is resolved by r:    *)
(* "lo" takes the lower end of the sampled range, "hi" the upper end.      *)

USER_TYPES == {"power_user", "casual", "first_time"}

Uniform(lo, hi, r) == IF r = "lo" THEN lo ELSE hi

get_typing_speed_wpm(user_type, r) ==
    CASE user_type = "power_user" -> Uniform(60, 80, r)
      [] user_type = "casual" -> Uniform(30, 50, r)
      [] OTHER -> Uniform(20, 40, r)

\* words / wpm * 60 seconds, in ms
calculate_typing_time(text, wpm) == (WordCount(text) * 60000) \div wpm

\* ranges in ms; important: lower * 1.5, upper * 2.0
get_decision_time(user_type, is_important, r) ==
    LET base == CASE user_type = "power_user" -> <<500, 2000>>
                  [] user_type = "casual" -> <<1000, 4000>>
                  [] user_type = "first_time" -> <<2000, 8000>>
    IN  IF is_important
        THEN Uniform((base[1] * 3) \div 2, base[2] * 2, r)
        ELSE Uniform(base[1], base[2], r)

\* get_reading_time(user_type, content_complexity), in ms; the multipliers
\* 0.7, 1.0 and 1.5 in tenths
ReadingTime(user_type, content_complexity, r) ==
    LET base == CASE user_type = "power_user" -> <<5000, 15000>>
                  [] user_type = "casual" -> <<10000, 30000>>
                  [] user_type = "first_time" -> <<15000, 45000>>
        multiplier == CASE content_complexity = "low" -> 7
                        [] content_complexity = "medium" -> 10
                        [] content_complexity = "high" -> 15
    IN  Uniform((base[1] * multiplier) \div 10, (base[2] * multiplier) \div 10, r)

\* the generator always calls it with the default 'medium'
get_reading_time(user_type, r) == ReadingTime(user_type, "medium", r)

\* base + seconds * 1000, the offset being given in ms already
get_timestamp_offset(base, offset_ms) == base + offset_ms

----------------------------------------------------------------------------
(* Data schema (schema.py) *)

\* BrowserAction with the dataclass defaults for the fields not given.
\* confidence is carried in hundredths (1.0 is 100).
BrowserAction(timestamp, action_type, action_id, element_type, element_selector, url, page_title) ==
    [timestamp |-> timestamp,
     action_type |-> action_type,
     action_id |-> action_id,
     element_type |-> element_type,
     element_selector |-> element_selector,
     url |-> url,
     page_title |-> page_title,
     value |-> Null,
     option_index |-> Null,
     coordinates |-> Null,
     is_intentional |-> Bool(TRUE),
     confidence |-> 100,
     user_intent |-> Null,
     element_visible |-> TRUE,
     element_clickable |-> TRUE,
     session_id |-> "",
     tab_id |-> ""]

Coordinates(x, y) == [t |-> "dict", x |-> x, y |-> y]

----------------------------------------------------------------------------
(* External collaborators reached while one action is built.  rnd.src     *)
(* says whether the element-data / text source answers ("ok") or fails or *)
(* answers with malformed output ("fail").                                *)

Raised(err) == [ok |-> FALSE, err |-> err]
Returned(x) == [ok |-> TRUE, val |-> x]

\* context.lower().replace(' ', '-'), tabulated
Slug(context) ==
    CASE context = "Add to Cart" -> "add-to-cart"
      [] context = "view cart" -> "view-cart"
      [] context = "Navigate to homepage" -> "navigate-to-homepage"
      [] context = "text input field" -> "text-input-field"
      [] context = "email input field" -> "email-input-field"
      [] OTHER -> context

\* f"#{element_type}-{context.lower().replace(' ', '-')}"
FallbackSelector(element_type, context) ==
    "#" \o element_type \o "-" \o Slug(context)

\* LLMDataGenerator.generate_element_data: the selector it returns.  The
\* except handler itself calls context.lower(), which raises on a null context.
generate_element_data(element_type, context, src) ==
    IF src = "ok"
    THEN Returned(Str("#llm-selector"))
    ELSE IF context.t = "str" /\ element_type.t = "str"
         THEN Returned(Str(FallbackSelector(element_type.v, context.v)))
         ELSE IF context.t = "str"
              THEN Returned(Str(FallbackSelector("el", context.v)))
              ELSE Raised("AttributeError")

\* LLMDataGenerator.generate_text_input_value
generate_text_input_value(field_type, src) ==
    IF src = "ok" THEN Str("laptop")
    ELSE Str(TextFallback(IF field_type.t = "str" THEN field_type.v ELSE "field"))

----------------------------------------------------------------------------
(* Action factories (actions.py) *)

create_navigate_action(timestamp, url, page_title, session_id, tab_id, action_id, is_intentional) ==
    [BrowserAction(timestamp, Str("navigate"), action_id, Str(""), Str(""),
                   url, page_title)
     EXCEPT !.session_id = session_id, !.tab_id = tab_id,
            !.is_intentional = is_intentional,
            !.user_intent = IF Truthy(is_intentional) THEN Str("navigate") ELSE Null]

create_click_action(timestamp, element_type, url, page_title, session_id, tab_id, action_id, context, user_intent, is_intentional, use_llm, selector, src) ==
    LET ed == generate_element_data(element_type, context, src)
        needs == use_llm /\ ~Truthy(selector)
    IN  IF needs /\ ~ed.ok THEN Raised(ed.err)
        ELSE Returned(
          [BrowserAction(timestamp, Str("click"), action_id, element_type,
                         IF needs THEN ed.val
                         ELSE IF ~Truthy(selector) THEN Str("#el-generated")
                         ELSE selector,
                         url, page_title)
           EXCEPT !.session_id = session_id, !.tab_id = tab_id,
                  !.is_intentional = is_intentional,
                  !.user_intent = user_intent])

create_type_action(timestamp, url, page_title, session_id, tab_id, action_id, field_type, context, user_intent, is_intentional, use_llm, selector, value, src) ==
    LET v1 == IF use_llm /\ ~Truthy(value)
              THEN generate_text_input_value(field_type, src) ELSE value
        ed == generate_element_data(Str("input"),
                  Str((IF field_type.t = "str" THEN field_type.v ELSE "field")
                      \o " input field"), src)
        needs == use_llm /\ ~Truthy(selector)
        sel == IF needs THEN ed.val
               ELSE IF ~Truthy(selector) THEN Str("input[name]") ELSE selector
        v2 == IF ~Truthy(v1)
              THEN Str(TestPlaceholder(IF field_type.t = "str" THEN field_type.v ELSE "field"))
              ELSE v1
    IN  Returned(
          [BrowserAction(timestamp, Str("type"), action_id, Str("input"), sel,
                         url, page_title)
           EXCEPT !.session_id = session_id, !.tab_id = tab_id,
                  !.is_intentional = is_intentional,
                  !.user_intent = user_intent,
                  !.value = v2])

create_scroll_action(timestamp, url, page_title, session_id, tab_id, action_id, coordinates, is_intentional) ==
    [BrowserAction(timestamp, Str("scroll"), action_id, Str("body"), Str("body"),
                   url, page_title)
     EXCEPT !.session_id = session_id, !.tab_id = tab_id,
            !.is_intentional = is_intentional,
            !.coordinates = coordinates,
            !.element_clickable = FALSE]

create_select_action(timestamp, url, page_title, session_id, tab_id, action_id, context, option_index, user_intent, is_intentional, use_llm, selector, src) ==
    LET ed == generate_element_data(Str("select"), context, src)
        needs == use_llm /\ ~Truthy(selector)
    IN  IF needs /\ ~ed.ok THEN Raised(ed.err)
        ELSE IF ~needs /\ ~Truthy(selector) /\ context.t # "str"
             THEN Raised("AttributeError")
        ELSE Returned(
          [BrowserAction(timestamp, Str("select"), action_id, Str("select"),
                         IF needs THEN ed.val
                         ELSE IF ~Truthy(selector) THEN Str("select[name]")
                         ELSE selector,
                         url, page_title)
           EXCEPT !.session_id = session_id, !.tab_id = tab_id,
                  !.is_intentional = is_intentional,
                  !.user_intent = user_intent,
                  !.option_index = option_index])

create_submit_action(timestamp, url, page_title, session_id, tab_id, action_id, user_intent, is_intentional) ==
    [BrowserAction(timestamp, Str("submit"), action_id, Str("form"), Str("form"),
                   url, page_title)
     EXCEPT !.session_id = session_id, !.tab_id = tab_id,
            !.is_intentional = is_intentional,
            !.user_intent = user_intent]

create_wait_action(timestamp, url, page_title, session_id, tab_id, action_id, is_intentional) ==
    [BrowserAction(timestamp, Str("wait"), action_id, Str(""), Str(""),
                   url, page_title)
     EXCEPT !.session_id = session_id, !.tab_id = tab_id,
            !.is_intentional = is_intentional,
            !.element_clickable = FALSE]

----------------------------------------------------------------------------
(* Action Builder: TrajectoryGenerator._convert_action_to_browser_action   *)

\* generator.py 174-186: the offset (ms) added to the running timestamp, or
\* the exception the computation raises.
TimeOffset(action_data, user_type, rnd) ==
    LET action_type == action_data["action_type"]
        context == Get(action_data, "context", Str(""))
    IN  CASE action_type = Str("navigate") ->
               Returned(Uniform(300, 3000, rnd.u))
          [] action_type = Str("type") ->
               LET value == PyOr(Get(action_data, "value", Null),
                                 Get(action_data, "value_hint", Str("text")))
               IN  IF value.t # "str" THEN Raised("AttributeError")
                   ELSE Returned(
                          calculate_typing_time(value.v,
                              get_typing_speed_wpm(user_type, rnd.u))
                          + get_decision_time(user_type, FALSE, rnd.u))
          [] action_type = Str("scroll") ->
               Returned(Uniform(500, 2000, rnd.u))
          [] action_type = Str("wait") ->
               IF "duration" \in DOMAIN action_data
               THEN LET d == action_data["duration"]
                    IN  CASE d.t = "num" -> Returned(d.v * 1000)
                          [] d.t = "bool" -> Returned(IF d.v THEN 1000 ELSE 0)
                          [] OTHER -> Raised("TypeError")
               ELSE Returned(get_reading_time(user_type, rnd.u))
          [] OTHER ->
               IF action_type \in {Str("submit"), Str("click")}
               THEN IF context.t # "str" THEN Raised("AttributeError")
                    ELSE Returned(get_decision_time(user_type,
                                      ContainsCart(context.v), rnd.u))
               ELSE Returned(get_decision_time(user_type, FALSE, rnd.u))

\* generator.py 190-337: the BrowserAction built at next_timestamp.
BuildAction(action_data, next_timestamp, session_id, tab_id, action_id, rnd) ==
    LET action_type == action_data["action_type"]
        url == Get(action_data, "url", Str("https://example.com"))
        page_title == Get(action_data, "page_title", Str("Page"))
        context == Get(action_data, "context", Str(""))
        user_intent == Get(action_data, "user_intent", Null)
        is_intentional == Get(action_data, "is_intentional", Bool(TRUE))
        selector == Get(action_data, "element_selector", Null)
        Flags(a) ==
            [a EXCEPT
               !.element_visible =
                   IF "element_visible" \in DOMAIN action_data
                   THEN PyBool(action_data["element_visible"]) ELSE @,
               !.element_clickable =
                   IF "element_clickable" \in DOMAIN action_data
                   THEN PyBool(action_data["element_clickable"]) ELSE @]
    IN  CASE action_type = Str("navigate") ->
               Returned(create_navigate_action(next_timestamp, url, page_title,
                   session_id, tab_id, action_id, is_intentional))
          [] action_type = Str("click") ->
               LET c == create_click_action(next_timestamp,
                            Get(action_data, "element_type", Str("button")),
                            url, page_title, session_id, tab_id, action_id,
                            context, user_intent, is_intentional,
                            ~Truthy(selector), selector, rnd.src)
               IN  IF c.ok THEN Returned(Flags(c.val)) ELSE c
          [] action_type = Str("type") ->
               LET value == PyOr(Get(action_data, "value", Null),
                                 Get(action_data, "value_hint", Str("")))
                   c == create_type_action(next_timestamp, url, page_title,
                            session_id, tab_id, action_id,
                            Get(action_data, "field_type", Str("text")),
                            context, user_intent, is_intentional,
                            ~(Truthy(selector) /\ Truthy(value)),
                            selector, value, rnd.src)
               IN  IF c.ok THEN Returned(Flags(c.val)) ELSE c
          [] action_type = Str("scroll") ->
               Returned(create_scroll_action(next_timestamp, url, page_title,
                   session_id, tab_id, action_id,
                   Coordinates(0, Uniform(100, 500, rnd.u)), is_intentional))
          [] action_type = Str("select") ->
               create_select_action(next_timestamp, url, page_title,
                   session_id, tab_id, action_id, context,
                   Get(action_data, "option_index", Num(Uniform(0, 4, rnd.u))),
                   user_intent, is_intentional, ~Truthy(selector), selector,
                   rnd.src)
          [] action_type = Str("submit") ->
               Returned(create_submit_action(next_timestamp, url, page_title,
                   session_id, tab_id, action_id, user_intent, is_intentional))
          [] action_type = Str("wait") ->
               Returned(create_wait_action(next_timestamp, url, page_title,
                   session_id, tab_id, action_id, is_intentional))
          [] OTHER ->
               Returned(
                 [BrowserAction(next_timestamp, action_type, action_id,
                      Get(action_data, "element_type", Str("")),
                      Get(action_data, "selector", Str("")),
                      url, page_title)
                  EXCEPT !.session_id = session_id, !.tab_id = tab_id,
                         !.is_intentional = is_intentional,
                         !.user_intent = user_intent])

_convert_action_to_browser_action(action_data, timestamp, session_id, tab_id, action_id, user_type, rnd) ==
    IF "action_type" \notin DOMAIN action_data THEN Raised("KeyError")
    ELSE LET off == TimeOffset(action_data, user_type, rnd)
         IN  IF ~off.ok THEN off
             ELSE BuildAction(action_data,
                      get_timestamp_offset(timestamp, off.val),
                      session_id, tab_id, action_id, rnd)

----------------------------------------------------------------------------
(* Action-structure source: LLM response handling (llm_schema_validator.py,*)
(* llm_generator.py).  A structure is a dict with keys among "domain",     *)
(* "goal_achieved" and "actions"; "actions" holds a sequence of dicts.     *)

VALID_ACTION_TYPES == {"click", "type", "navigate", "scroll", "hover", "select",
                       "submit", "back", "forward", "refresh", "wait", "drag_drop"}

\* str.lower(), tabulated
Lower(s) ==
    CASE s = "CLICK" -> "click"
      [] s = "Add to Cart" -> "add to cart"
      [] OTHER -> s

\* the URL pattern shared by _validate_url_format and validate_url
UrlMatches(s) ==
    s \in {"https://example.com", "http://example.com/",
           "https://shop.example.com/cart", "https://example-research.com",
           "http://localhost:8080", "https://10.0.0.1/a"}

_validate_url_format(url) == url # "" /\ UrlMatches(url)

\* validate_action_structure(action) = [] (no error found)
ActionStructureValid(action) ==
    /\ "action_type" \in DOMAIN action
    /\ action["action_type"].t = "str"
    /\ action["action_type"].v \in VALID_ACTION_TYPES
    /\ "url" \in DOMAIN action
    /\ action["url"].t = "str"
    /\ (action["url"].v # "" => _validate_url_format(action["url"].v))
    /\ ("page_title" \in DOMAIN action => action["page_title"].t = "str")
    /\ ("element_type" \in DOMAIN action => action["element_type"].t = "str")
    /\ (action["action_type"] = Str("type") =>
           ("value" \in DOMAIN action \/ "value_hint" \in DOMAIN action))
    /\ (action["action_type"] = Str("select") /\ "option_index" \in DOMAIN action
           => action["option_index"].t \in {"num", "bool"})
    /\ ("is_intentional" \in DOMAIN action => action["is_intentional"].t = "bool")
    /\ ("user_intent" \in DOMAIN action => action["user_intent"].t = "str")
    /\ ("context" \in DOMAIN action => action["context"].t = "str")

\* validate_trajectory_structure(structure)[0]
validate_trajectory_structure(structure) ==
    /\ "actions" \in DOMAIN structure
    /\ ("domain" \in DOMAIN structure => structure["domain"].t = "str")
    /\ ("goal_achieved" \in DOMAIN structure => structure["goal_achieved"].t = "bool")
    /\ Len(structure["actions"]) # 0
    /\ \A i \in 1..Len(structure["actions"]) :
           ActionStructureValid(structure["actions"][i])

\* str(x) of a JSON value
PyStr(x) ==
    CASE x.t = "str" -> x.v
      [] x.t = "null" -> "None"
      [] x.t = "bool" -> IF x.v THEN "True" ELSE "False"
      [] x.t = "num" -> ToString(x.v)

normalize_action_structure(action) ==
    [k \in DOMAIN action \cup {"url", "page_title", "is_intentional"} |->
        CASE k = "action_type" -> Str(Lower(PyStr(action[k])))
          [] k = "url" ->
               IF k \notin DOMAIN action \/ ~Truthy(action[k])
               THEN Str("https://example.com") ELSE Str(PyStr(action[k]))
          [] k = "page_title" ->
               IF k \notin DOMAIN action \/ ~Truthy(action[k])
               THEN Str("Page") ELSE Str(PyStr(action[k]))
          [] k = "is_intentional" ->
               IF k \notin DOMAIN action THEN Bool(TRUE)
               ELSE Bool(PyBool(action[k]))
          [] k = "element_type" -> Str(PyStr(action[k]))
          [] k \in {"user_intent", "context"} ->
               IF action[k].t = "null" THEN Null ELSE Str(PyStr(action[k]))
          [] k = "option_index" ->
               IF action[k].t = "bool"
               THEN Num(IF action[k].v THEN 1 ELSE 0) ELSE action[k]
          [] OTHER -> action[k]]

normalize_trajectory_structure(structure) ==
    [k \in DOMAIN structure \cup {"actions"} |->
        CASE k = "actions" ->
               IF k \in DOMAIN structure
               THEN [i \in 1..Len(structure[k]) |->
                        normalize_action_structure(structure[k][i])]
               ELSE <<>>
          [] k = "domain" -> Str(PyStr(structure[k]))
          [] k = "goal_achieved" -> Bool(PyBool(structure[k]))
          [] OTHER -> structure[k]]

\* workflow_type.replace('_', ' ').title()
TitleOf(workflow_type) ==
    CASE workflow_type = "e_commerce" -> "E Commerce"
      [] workflow_type = "form_filling" -> "Form Filling"
      [] workflow_type = "research" -> "Research"
      [] OTHER -> workflow_type

\* llm_generator.py 446-462
FallbackStructure(workflow_type, goal) ==
    [k \in {"domain", "goal", "goal_achieved", "actions"} |->
        CASE k = "domain" -> Str("example-" \o workflow_type \o ".com")
          [] k = "goal" -> Str(goal)
          [] k = "goal_achieved" -> Bool(TRUE)
          [] k = "actions" ->
               << [f \in {"action_type", "url", "page_title", "context",
                          "user_intent", "is_intentional"} |->
                    CASE f = "action_type" -> Str("navigate")
                      [] f = "url" -> Str("https://example-" \o workflow_type \o ".com")
                      [] f = "page_title" -> Str(TitleOf(workflow_type) \o " - Home")
                      [] f = "context" -> Str("Navigate to homepage")
                      [] f = "user_intent" -> Str("navigate")
                      [] f = "is_intentional" -> Bool(TRUE)] >>]

\* LLMDataGenerator.generate_trajectory_structure.  llm.kind is "error" when
\* the API call or the JSON parse raises, "json" when a dict was parsed.
generate_trajectory_structure(llm, workflow_type, goal) ==
    IF llm.kind = "error" THEN FallbackStructure(workflow_type, goal)
    ELSE IF validate_trajectory_structure(llm.structure) THEN llm.structure
         ELSE normalize_trajectory_structure(llm.structure)

----------------------------------------------------------------------------
(* Trajectory Assembler: TrajectoryGenerator.generate_trajectory           *)

\* random.choice(DOMAINS.get(workflow_type, ['example.com']))
get_domain(workflow_type, r) ==
    CASE workflow_type = "e_commerce" ->
             Uniform("example-store.com", "retail-test.com", r)
      [] workflow_type = "form_filling" ->
             Uniform("signup-example.com", "form-test.com", r)
      [] workflow_type = "research" ->
             Uniform("search-example.com", "article-test.com", r)
      [] OTHER -> "example.com"

\* f"{n:03d}"
Pad3(n) ==
    IF n < 10 THEN "00" \o ToString(n)
    ELSE IF n < 100 THEN "0" \o ToString(n) ELSE ToString(n)

\* an id that does not advance with the position
ActionIdFirst(i) == "action_" \o Pad3(1)

\* action_id = f"action_{i+1:03d}", i being the 0-based position of the
\* candidate in actions_data
ActionId(i) == "action_" \o Pad3(i + 1)

\* actions_data[:num_actions] when len(actions_data) > num_actions
Truncate(actions_data, num_actions) ==
    IF Len(actions_data) > num_actions
    THEN SubSeq(actions_data, 1, num_actions)
    ELSE actions_data

\* minimum number of converted actions (generator.py 450)
MinConverted == 3

\* generator.py 425-444, from 0-based position i on: the converted actions and
\* the final value of the timestamp cursor
\* a loop that ends at the first candidate whose conversion raises
RECURSIVE ConvertLoopStop(_, _, _, _, _, _, _, _)
ConvertLoopStop(actions_data, i, timestamp, browser_actions, session_id, tab_id, user_type, rnds) ==
    IF i >= Len(actions_data)
    THEN [browser_actions |-> browser_actions, timestamp |-> timestamp]
    ELSE LET c == _convert_action_to_browser_action(actions_data[i + 1],
                      timestamp, session_id, tab_id, ActionId(i), user_type,
                      rnds[i + 1])
         IN  IF c.ok
             THEN ConvertLoopStop(actions_data, i + 1, c.val.timestamp,
                                  Append(browser_actions, c.val), session_id,
                                  tab_id, user_type, rnds)
             ELSE [browser_actions |-> browser_actions, timestamp |-> timestamp]

RECURSIVE ConvertLoop(_, _, _, _, _, _, _, _)
ConvertLoop(actions_data, i, timestamp, browser_actions, session_id, tab_id, user_type, rnds) ==
    IF i >= Len(actions_data)
    THEN [browser_actions |-> browser_actions, timestamp |-> timestamp]
    ELSE LET c == _convert_action_to_browser_action(actions_data[i + 1],
                      timestamp, session_id, tab_id, ActionId(i), user_type,
                      rnds[i + 1])
         IN  IF c.ok
             THEN ConvertLoop(actions_data, i + 1, c.val.timestamp,
                              Append(browser_actions, c.val), session_id,
                              tab_id, user_type, rnds)
             ELSE ConvertLoop(actions_data, i + 1, timestamp, browser_actions,
                              session_id, tab_id, user_type, rnds)

\* The resolved num_actions: kwargs.get('num_actions') or randint(min, max).
\* c.num_actions = 0 stands for no override; c.rand_num is the randint draw.
ResolveNumActions(c) ==
    IF c.num_actions # 0 THEN c.num_actions ELSE c.rand_num

\* a test that only rejects an empty conversion result
TooFewOnlyEmpty(browser_actions) == Len(browser_actions) < 1

\* the too-few-actions test of generator.py 450
TooFew(browser_actions) == Len(browser_actions) < MinConverted

\* generate_trajectory(**kwargs) for the resolved inputs c
generate_trajectory(c) ==
    LET num_actions == ResolveNumActions(c)
        structure == generate_trajectory_structure(c.llm, c.workflow_type, c.goal)
    IN  IF c.num_actions = 0 /\ c.min_actions > c.max_actions
        THEN Raised("ValueError: empty range for randrange")
        ELSE IF "actions" \notin DOMAIN structure
        THEN Raised("ValueError: missing 'actions' field")
        ELSE IF Len(structure["actions"]) = 0
        THEN Raised("ValueError: no actions")
        ELSE
          LET actions_data == Truncate(structure["actions"], num_actions)
              start_time == c.now
              conv == ConvertLoop(actions_data, 0, start_time, <<>>,
                                  c.session_id, c.tab_id, c.user_type, c.rnds)
          IN  IF TooFew(conv.browser_actions)
              THEN Raised("ValueError: too few valid actions")
              ELSE Returned(
                     [trajectory_id |-> c.trajectory_id,
                      session_id |-> c.session_id,
                      actions |-> conv.browser_actions,
                      workflow_type |-> c.workflow_type,
                      domain |-> IF "domain" \in DOMAIN structure
                                    /\ Truthy(structure["domain"])
                                 THEN structure["domain"].v
                                 ELSE get_domain(c.workflow_type, c.u),
                      start_time |-> start_time,
                      end_time |-> conv.timestamp,
                      duration |-> conv.timestamp - start_time,
                      user_type |-> c.user_type,
                      device_type |-> c.device_type,
                      browser_type |-> c.browser_type,
                      goal |-> c.goal,
                      goal_achieved |-> Get(structure, "goal_achieved", Bool(TRUE)),
                      success_indicators |-> <<>>])

----------------------------------------------------------------------------
(* Structural Validator (validator.py) *)

\* validate_url(url)
validate_url(url) == url # "" /\ UrlMatches(url)

\* any(pattern in selector.lower() for pattern in dangerous_patterns)
HasDangerousPattern(selector) ==
    selector \in {"javascript:alert(1)", "a[href='data:x']", "VBScript:x"}

\* len(selector) > 500, tabulated: one over-long selector is in use
TooLongSelector(selector) == selector = "#long-selector-501"

validate_selector(selector) ==
    /\ selector # ""
    /\ ~HasDangerousPattern(selector)
    /\ ~TooLongSelector(selector)

\* truthiness of the coordinates dict
CoordinatesTruthy(c) == c.t = "dict" /\ DOMAIN c # {"t"}

\* float('nan'), which JSON parsing and float arithmetic can deliver wherever
\* a float is expected; encoded by a reserved number that no arithmetic of
\* the model produces
NaN == -999999999

\* Python's float comparisons: every ordering comparison with NaN is False
FLt(a, b) == a # NaN /\ b # NaN /\ a < b
FLe(a, b) == a # NaN /\ b # NaN /\ a <= b
FGe(a, b) == a # NaN /\ b # NaN /\ a >= b

\* truthiness of a float: only 0.0 is falsy
FloatTruthy(x) == x # 0

\* a validator that does not look at the type-specific fields
TypeParametersUnchecked(action) == TRUE

\* "Action type matches parameters" (validator.py 120-129): an empty value
\* of a type action passes, a select action needs option_index, a scroll
\* action needs truthy coordinates
TypeParametersOk(action) ==
    /\ ~(action.action_type = Str("select") /\ action.option_index = Null)
    /\ ~(action.action_type = Str("scroll") /\ ~CoordinatesTruthy(action.coordinates))

\* validate_action(action, index, all_actions)
validate_action(action) ==
    /\ ~(~FloatTruthy(action.timestamp) \/ FLe(action.timestamp, 0))
    /\ Truthy(action.action_type)
    /\ Truthy(action.url)
    /\ action.action_id # ""
    /\ action.action_type.t = "str" /\ action.action_type.v \in VALID_ACTION_TYPES
    /\ TypeParametersOk(action)
    /\ (CoordinatesTruthy(action.coordinates) =>
          /\ "x" \in DOMAIN action.coordinates
          /\ "y" \in DOMAIN action.coordinates
          /\ ~(FLt(action.coordinates.x, 0) \/ FLt(action.coordinates.y, 0))
          /\ ~(FLt(10000, action.coordinates.x) \/ FLt(10000, action.coordinates.y)))
    /\ 0 <= action.confidence /\ action.confidence <= 100
    /\ action.url.t = "str" /\ validate_url(action.url.v)
    /\ (Truthy(action.element_selector) =>
          action.element_selector.t = "str"
          /\ validate_selector(action.element_selector.v))

\* the action-count rule with no upper limit
CountInRangeNoMax(n) == 3 <= n

\* 3 <= len(trajectory.actions) <= 10
CountInRange(n) == 3 <= n /\ n <= 10

\* validate_trajectory(trajectory)
validate_trajectory(trajectory) ==
    /\ CountInRange(Len(trajectory.actions))
    /\ ~FGe(trajectory.start_time, trajectory.end_time)
    /\ ~FLt(trajectory.duration, 0)
    /\ \A i \in 1..Len(trajectory.actions) :
          /\ validate_action(trajectory.actions[i])
          /\ ~(i > 1 /\ FLt(trajectory.actions[i].timestamp,
                            trajectory.actions[i - 1].timestamp))
          /\ Cardinality({trajectory.actions[k].action_id :
                            k \in 1..Len(trajectory.actions)})
               = Len(trajectory.actions)

----------------------------------------------------------------------------
(* Deduplication Engine (deduplication.py) *)

\* url.lower().strip(), protocol removed, trailing slashes removed
UrlNormalForm(s) ==
    CASE s = "https://example.com" -> "example.com"
      [] s = "http://example.com/" -> "example.com"
      [] s = "http://example.com" -> "example.com"
      [] s = "https://example.com/" -> "example.com"
      [] s = "HTTPS://Example.com" -> "example.com"
      [] s = " https://example.com " -> "example.com"
      [] s = "https://shop.example.com/cart" -> "shop.example.com/cart"
      [] s = "https://example-research.com" -> "example-research.com"
      [] s = "https://example-e_commerce.com" -> "example-e_commerce.com"
      [] s = "http://localhost:8080" -> "localhost:8080"
      [] s = "https://10.0.0.1/a" -> "10.0.0.1/a"
      [] OTHER -> s

\* text.lower().strip()
TextNormalForm(s) ==
    CASE s = "Home" -> "home"
      [] s = "Page" -> "page"
      [] s = " Home " -> "home"
      [] s = "HOME" -> "home"
      [] s = "Laptop" -> "laptop"
      [] s = " laptop " -> "laptop"
      [] s = "E Commerce - Home" -> "e commerce - home"
      [] s = "Research - Home" -> "research - home"
      [] s = "   " -> ""
      [] OTHER -> Lower(s)

\* " ".join(selector.lower().strip().split())
SelectorNormalForm(s) ==
    CASE s = "#Buy" -> "#buy"
      [] s = " #buy " -> "#buy"
      [] s = "div  >  a" -> "div > a"
      [] OTHER -> s

_normalize_url(url) == IF ~Truthy(url) THEN Str("") ELSE Str(UrlNormalForm(url.v))
_normalize_text(text) == IF ~Truthy(text) THEN Str("") ELSE Str(TextNormalForm(text.v))
_normalize_selector(selector) ==
    IF ~Truthy(selector) THEN Str("") ELSE Str(SelectorNormalForm(selector.v))

\* a fingerprint that also covers the trajectory_id
FingerprintWithId(trajectory) ==
    [trajectory_id |-> trajectory.trajectory_id,
     workflow_type |-> trajectory.workflow_type,
     goal |-> trajectory.goal]

\* compute_trajectory_fingerprint(trajectory): the canonical content object.
\* json.dumps(sort_keys) and SHA-256 map distinct content objects to distinct
\* digests, so the content object stands for its digest.
compute_trajectory_fingerprint(trajectory) ==
    [workflow_type |-> trajectory.workflow_type,
     goal |-> trajectory.goal,
     actions |->
        [i \in 1..Len(trajectory.actions) |->
            LET action == trajectory.actions[i]
            IN  [action_type |-> action.action_type,
                 element_type |-> action.element_type,
                 element_selector |-> _normalize_selector(action.element_selector),
                 url |-> _normalize_url(action.url),
                 page_title |-> _normalize_text(action.page_title),
                 value |-> IF Truthy(action.value)
                           THEN _normalize_text(action.value) ELSE action.value,
                 option_index |-> action.option_index]]]

\* a duplicate record that names the dropped trajectory as its own original
DuplicateInfoOfItself(trajectory, original, fingerprint) ==
    [trajectory_id |-> trajectory.trajectory_id,
     duplicate_of |-> trajectory.trajectory_id,
     fingerprint |-> fingerprint,
     workflow_type |-> trajectory.workflow_type,
     goal |-> trajectory.goal]

\* the duplicate record of detect_exact_duplicates
DuplicateInfo(trajectory, original, fingerprint) ==
    [trajectory_id |-> trajectory.trajectory_id,
     duplicate_of |-> original.trajectory_id,
     fingerprint |-> fingerprint,
     workflow_type |-> trajectory.workflow_type,
     goal |-> trajectory.goal]

\* the loop of detect_exact_duplicates from position i (1-based) on
RECURSIVE DetectLoop(_, _, _, _, _)
DetectLoop(trajs, i, seen_fingerprints, deduplicated, duplicates_info) ==
    IF i > Len(trajs)
    THEN [deduplicated |-> deduplicated, duplicates_info |-> duplicates_info]
    ELSE LET trajectory == trajs[i]
             fingerprint == compute_trajectory_fingerprint(trajectory)
         IN  IF fingerprint \in DOMAIN seen_fingerprints
             THEN DetectLoop(trajs, i + 1, seen_fingerprints, deduplicated,
                      Append(duplicates_info,
                             DuplicateInfo(trajectory,
                                 seen_fingerprints[fingerprint], fingerprint)))
             ELSE DetectLoop(trajs, i + 1,
                      seen_fingerprints @@ (fingerprint :> trajectory),
                      Append(deduplicated, trajectory), duplicates_info)

\* a loop that starts at the second trajectory
DetectFromSecond(trajs) == DetectLoop(trajs, 2, <<>>, <<>>, <<>>)

detect_exact_duplicates(trajs) == DetectLoop(trajs, 1, <<>>, <<>>, <<>>)

\* statistics that count the list after deduplication as the original
StatsOfDeduplicated(original, deduplicated, exact_duplicates) ==
    [original_count |-> Len(deduplicated),
     exact_duplicates_count |-> Len(exact_duplicates),
     near_duplicates_count |-> 0,
     final_count |-> Len(deduplicated),
     exact_duplicates_info |-> exact_duplicates,
     near_duplicates_info |-> <<>>]

\* statistics that report the removed trajectories as near duplicates too
StatsWithNearDuplicates(original, deduplicated, exact_duplicates) ==
    [original_count |-> Len(original),
     exact_duplicates_count |-> Len(exact_duplicates),
     near_duplicates_count |-> Len(exact_duplicates),
     final_count |-> Len(deduplicated),
     exact_duplicates_info |-> exact_duplicates,
     near_duplicates_info |-> exact_duplicates]

\* the stats dict of deduplicate_trajectories / of the no-deduplication branch
DedupStats(original, deduplicated, exact_duplicates) ==
    [original_count |-> Len(original),
     exact_duplicates_count |-> Len(exact_duplicates),
     near_duplicates_count |-> 0,
     final_count |-> Len(deduplicated),
     exact_duplicates_info |-> exact_duplicates,
     near_duplicates_info |-> <<>>]

deduplicate_trajectories(trajs) ==
    LET d == detect_exact_duplicates(trajs)
    IN  [trajectories |-> d.deduplicated,
         stats |-> DedupStats(trajs, d.deduplicated, d.duplicates_info)]

----------------------------------------------------------------------------
(* Inputs: candidate records, random draws, generate_trajectory calls      *)

NavC == [action_type |-> Str("navigate"), url |-> Str("https://example.com"),
         page_title |-> Str("Home")]
ClickC == [action_type |-> Str("click"), url |-> Str("https://example.com"),
           element_selector |-> Str("#buy"), context |-> Str("Add to Cart")]
TypeEmptyC == [action_type |-> Str("type"), url |-> Str("https://example.com"),
               value |-> Str("")]
ScrollC == [action_type |-> Str("scroll"), url |-> Str("https://example.com")]
WaitC == [action_type |-> Str("wait"), url |-> Str("https://example.com")]
WaitNegC == [action_type |-> Str("wait"), url |-> Str("https://example.com"),
             duration |-> Num(-5)]
WaitZeroC == [action_type |-> Str("wait"), url |-> Str("https://example.com"),
              duration |-> Num(0)]
\* a record without the action_type key: its conversion raises KeyError
NoTypeC == [url |-> Str("https://example.com"), page_title |-> Str("Home")]

CandidatePool == {NavC, ClickC, TypeEmptyC, ScrollC, WaitC, WaitNegC,
                  WaitZeroC, NoTypeC}

\* one draw per converted candidate: u resolves the random.uniform / randint
\* calls of that conversion, src the element-data / text source
Draws == {[u |-> "lo", src |-> "ok"], [u |-> "hi", src |-> "fail"]}

\* generate_id(prefix) with the randint draw n
generate_id(prefix, n) == prefix \o "_" \o ToString(n)

\* get_timestamp(): the wall clock, ms since the epoch
Now == 1000000

Profiles ==
    {[workflow_type |-> "e_commerce", goal |-> "purchase_product",
      user_type |-> "power_user"],
     [workflow_type |-> "research", goal |-> "find_information",
      user_type |-> "first_time"]}

MkCall(profile, min_actions, max_actions, num_actions, rand_num, llm, rnds, idn) ==
    [workflow_type |-> profile.workflow_type,
     goal |-> profile.goal,
     user_type |-> profile.user_type,
     device_type |-> "desktop",
     browser_type |-> "chrome",
     min_actions |-> min_actions,
     max_actions |-> max_actions,
     num_actions |-> num_actions,
     rand_num |-> rand_num,
     llm |-> llm,
     rnds |-> rnds,
     u |-> "lo",
     now |-> Now,
     trajectory_id |-> generate_id("traj", idn),
     session_id |-> generate_id("session", idn),
     tab_id |-> generate_id("tab", idn)]

Json(structure) == [kind |-> "json", structure |-> structure]
LlmError == [kind |-> "error"]

SeqsUpTo(S, n) == UNION {[1..k -> S] : k \in 0..n}

DefaultProfile == CHOOSE p \in Profiles : p.user_type = "power_user"

\* candidate lists of up to MaxShort records drawn freely from the pool, with
\* every combination of draws; default configuration, with and without a
\* num_actions override of 2
ShortCalls ==
    {MkCall(DefaultProfile, 3, 10, n[1], n[2], Json([actions |-> cands]), rnds, 100000) :
        n \in {<<0, 3>>, <<0, 10>>, <<2, 3>>},
        cands \in SeqsUpTo(CandidatePool, MaxShort),
        rnds \in {[i \in 1..MaxShort |-> d] : d \in Draws}}

\* uniform candidate lists of up to MaxLong records, under configurations and
\* overrides up to MaxCfgActions
LongCalls ==
    {MkCall(p, 3, mx, n, Uniform(3, mx, r), Json([actions |-> [i \in 1..k |-> c],
                                  domain |-> Str("shop.example.com"),
                                  goal_achieved |-> Bool(FALSE)]),
            [i \in 1..k |-> d], 100000) :
        p \in Profiles, mx \in {10, MaxCfgActions}, n \in {0, 10, MaxCfgActions},
        r \in {"lo", "hi"}, k \in (MaxShort + 1)..MaxLong,
        c \in {ClickC, WaitZeroC, WaitC}, d \in Draws}

\* uniform candidate lists in which the record at position h cannot be
\* converted (no action_type)
HoleCalls ==
    {MkCall(DefaultProfile, 3, mx, 0, mx,
            Json([actions |-> [i \in 1..k |-> IF i = h THEN NoTypeC ELSE c]]),
            [i \in 1..k |-> d], 100000) :
        mx \in {10, MaxCfgActions}, k \in (MaxShort + 1)..MaxLong,
        h \in 1..MaxLong, c \in {ClickC, WaitC, ScrollC}, d \in Draws}

\* source failures: API / parse error (fallback structure), a dict without
\* "actions", and a configuration with min_actions > max_actions
ErrorCalls ==
    {MkCall(p, mn, 10, n, mn, llm, <<d>>, 100000) :
        p \in Profiles, mn \in {3, 11}, n \in {0, 5},
        llm \in {LlmError, Json([domain |-> Str("shop.example.com")]),
                 Json([goal_achieved |-> Bool(TRUE)])},
        d \in Draws}

TrajCalls == ShortCalls \cup LongCalls \cup HoleCalls \cup ErrorCalls

----------------------------------------------------------------------------
(* Specification of one generate_trajectory call *)

Idle == [ok |-> FALSE, err |-> "not called"]
NoTrajectory == [none |-> TRUE]

NoFiles == [written |-> {}, dataset |-> <<>>, metadata |-> NoTrajectory,
            statistics |-> NoTrajectory]

RngIdle == rng = [pos |-> 0] /\ draws = <<>>

MainIdle ==
    /\ valid_trajectories = <<>> /\ invalid_trajectories = <<>>
    /\ stats = NoTrajectory /\ files = NoFiles
    /\ exit_code = "none" /\ mpc = "idle"

DatasetIdle ==
    /\ config = [max_workers |-> 0, dedup_enabled |-> FALSE]
    /\ fut = <<>> /\ result = <<>> /\ collected = {} /\ trajectories = <<>>
    /\ failed_count = 0 /\ completed = 0 /\ pc = "idle" /\ ret = NoTrajectory

TrajInit ==
    /\ call \in TrajCalls
    /\ outcome = Idle
    /\ vin = NoTrajectory /\ verdict = "none"
    /\ DatasetIdle
    /\ MainIdle
    /\ RngIdle

GenerateTrajectoryCall ==
    /\ outcome = Idle
    /\ outcome' = generate_trajectory(call)
    /\ UNCHANGED <<rngVars, mainVars, call, valVars, dsVars>>

\* the returned Trajectory is handed to the Structural Validator (main.py 128)
ValidateReturned ==
    /\ outcome.ok
    /\ verdict = "none"
    /\ vin' = outcome.val
    /\ verdict' = IF validate_trajectory(outcome.val) THEN "True" ELSE "False"
    /\ UNCHANGED <<rngVars, mainVars, trajVars, dsVars>>

TrajNext == GenerateTrajectoryCall \/ ValidateReturned

TrajSpec == TrajInit /\ [][TrajNext]_vars

----------------------------------------------------------------------------
(* Concurrency Orchestrator: TrajectoryGenerator.generate_dataset          *)
(*                                                                         *)
(* Each of the NTasks futures runs one generate_trajectory call on a pool  *)
(* worker; the main thread iterates as_completed, then leaves the `with`   *)
(* block, deduplicates and returns.                                        *)

Tasks == 1..NTasks

\* max_workers of the modelled configuration
MaxWorkers == 2

\* the calls a pool task can turn out to make
DatasetCalls ==
    {MkCall(DefaultProfile, 3, 10, 0, 3, llm,
            [i \in 1..3 |-> [u |-> "lo", src |-> "ok"]], 100000) :
        llm \in {Json([actions |-> <<NavC, ClickC, ScrollC>>]),
                 Json([actions |-> <<NavC, WaitNegC, ClickC>>]),
                 Json([actions |-> <<>>]),
                 Json([domain |-> Str("shop.example.com")]),
                 LlmError}}
    \cup
    {MkCall(DefaultProfile, 3, 10, 0, 3, Json([actions |-> <<NavC, WaitC, ClickC>>]),
            [i \in 1..3 |-> [u |-> "lo", src |-> "ok"]], 100001)}

NotRun == [call |-> NoTrajectory, out |-> Idle]

\* the state in which generate_dataset has submitted its tasks
DatasetStart ==
    /\ config \in {[max_workers |-> MaxWorkers, dedup_enabled |-> b] : b \in BOOLEAN}
    /\ fut = [i \in Tasks |-> "pending"]
    /\ result = [i \in Tasks |-> NotRun]
    /\ collected = {}
    /\ trajectories = <<>>
    /\ failed_count = 0
    /\ completed = 0
    /\ pc = "collect"
    /\ ret = NoTrajectory
    /\ call = NoTrajectory /\ outcome = Idle
    /\ vin = NoTrajectory /\ verdict = "none"

Init == DatasetStart /\ MainIdle /\ RngIdle

\* a pool worker takes the oldest queued task
WorkerStart(i) ==
    /\ fut[i] = "pending"
    /\ \A j \in Tasks : j < i => fut[j] # "pending"
    /\ Cardinality({j \in Tasks : fut[j] = "running"}) < config.max_workers
    /\ fut' = [fut EXCEPT ![i] = "running"]
    /\ UNCHANGED <<rngVars, mainVars, trajVars, valVars, config, result, collected, trajectories,
                   failed_count, completed, pc, ret>>

\* the task's generate_trajectory call returns or raises; the future is done
WorkerFinish(i) ==
    /\ fut[i] = "running"
    /\ \E c \in DatasetCalls :
          result' = [result EXCEPT ![i] = [call |-> c, out |-> generate_trajectory(c)]]
    /\ fut' = [fut EXCEPT ![i] = "finished"]
    /\ UNCHANGED <<rngVars, mainVars, trajVars, valVars, config, collected, trajectories,
                   failed_count, completed, pc, ret>>

\* a collector that lets the exception of future.result() escape the loop
OnFutureAbort(acc, out) ==
    IF out.ok
    THEN [acc EXCEPT !.trajectories = Append(@, out.val), !.completed = @ + 1]
    ELSE [acc EXCEPT !.pc = "raised"]

\* a collector that swallows the exception without counting it
OnFutureUncounted(acc, out) ==
    IF out.ok
    THEN [acc EXCEPT !.trajectories = Append(@, out.val), !.completed = @ + 1]
    ELSE acc

\* the body of the as_completed loop (generator.py 523-535)
OnFuture(acc, out) ==
    IF out.ok
    THEN [acc EXCEPT !.trajectories = Append(@, out.val), !.completed = @ + 1]
    ELSE [acc EXCEPT !.failed_count = @ + 1]

\* as_completed yields a finished future that it has not yielded before
Collect(i) ==
    /\ pc = "collect"
    /\ fut[i] = "finished"
    /\ i \notin collected
    /\ LET acc == OnFuture([trajectories |-> trajectories,
                            failed_count |-> failed_count,
                            completed |-> completed, pc |-> pc],
                           result[i].out)
       IN  /\ trajectories' = acc.trajectories
           /\ failed_count' = acc.failed_count
           /\ completed' = acc.completed
           /\ pc' = acc.pc
    /\ collected' = collected \cup {i}
    /\ UNCHANGED <<rngVars, mainVars, trajVars, valVars, config, fut, result, ret>>

\* leaving the loop as soon as one future has been handled, without waiting
LeaveAfterFirst == collected # {}

\* as_completed is exhausted and the `with` block's shutdown(wait=True) is over
LoopAndPoolDone ==
    /\ collected = Tasks
    /\ \A i \in Tasks : fut[i] = "finished"

ExitPool ==
    /\ pc = "collect"
    /\ LoopAndPoolDone
    /\ pc' = "dedup"
    /\ UNCHANGED <<rngVars, mainVars, trajVars, valVars, config, fut, result, collected,
                   trajectories, failed_count, completed, ret>>

\* generator.py 542-563
DedupAndReturn ==
    /\ pc = "dedup"
    /\ ret' = IF config.dedup_enabled
              THEN deduplicate_trajectories(trajectories)
              ELSE [trajectories |-> trajectories,
                    stats |-> DedupStats(trajectories, trajectories, <<>>)]
    /\ pc' = "returned"
    /\ UNCHANGED <<rngVars, mainVars, trajVars, valVars, config, fut, result, collected,
                   trajectories, failed_count, completed>>

Next ==
    \/ \E i \in Tasks : WorkerStart(i)
    \/ \E i \in Tasks : WorkerFinish(i)
    \/ \E i \in Tasks : Collect(i)
    \/ ExitPool
    \/ DedupAndReturn

Spec == Init /\ [][Next]_vars

\* every started task finishes or fails, and the main thread keeps running
FairSpec ==
    /\ Spec
    /\ \A i \in Tasks : WF_vars(WorkerStart(i)) /\ WF_vars(WorkerFinish(i))
                        /\ WF_vars(Collect(i))
    /\ WF_vars(ExitPool)
    /\ WF_vars(DedupAndReturn)

----------------------------------------------------------------------------
(* Specification of one validate_trajectory call (validator.py).  The      *)
(* argument is any Trajectory object: times are floats, NaN included.      *)

\* the defect of the timestamp at one position of the action list
TimestampDefects == {"none", "drop", "equal", "nan", "zero"}

TimestampAt(i, k, defect) ==
    IF i # k \/ defect = "none" THEN Now + 100 * i
    ELSE CASE defect = "drop" -> Now + 100 * (i - 1) - 50
           [] defect = "equal" -> Now + 100 * (i - 1)
           [] defect = "nan" -> NaN
           [] OTHER -> 0

\* n click actions; position k has the timestamp defect, position dupk
\* repeats the first action_id, position badk is a scroll without coordinates
ActionList(n, k, defect, dupk, badk) ==
    [i \in 1..n |->
        BrowserAction(TimestampAt(i, k, defect),
                      IF i = badk THEN Str("scroll") ELSE Str("click"),
                      IF i = dupk THEN ActionId(0) ELSE ActionId(i - 1),
                      Str("button"), Str("#buy"), Str("https://example.com"),
                      Str("Page"))]

\* <<start_time, end_time, duration>>
TrajectoryTimes ==
    {<<Now, Now + 5000, 5000>>, <<Now, Now + 5000, 0 - 1>>, <<Now, Now + 5000, NaN>>,
     <<Now, Now, 0>>, <<Now + 5000, Now, 5000>>,
     <<NaN, Now + 5000, 5000>>, <<Now, NaN, 5000>>}

Trajectory(actions, tm) ==
    [trajectory_id |-> "traj_100000",
     session_id |-> "session_100000",
     actions |-> actions,
     workflow_type |-> "e_commerce",
     domain |-> "example-store.com",
     start_time |-> tm[1],
     end_time |-> tm[2],
     duration |-> tm[3],
     user_type |-> "power_user",
     device_type |-> "desktop",
     browser_type |-> "chrome",
     goal |-> "purchase_product",
     goal_achieved |-> Bool(TRUE),
     success_indicators |-> <<>>]

\* trajectories with defects of count, times and ids
TimingInputs ==
    {Trajectory(ActionList(n, k, defect, dupk, badk), tm) :
        n \in 0..MaxLong, k \in 1..MaxShort, defect \in TimestampDefects,
        dupk \in {0} \cup 2..MaxShort, badk \in 0..1,
        tm \in TrajectoryTimes}

\* the type-specific fields of one action: <<action_type, option_index,
\* coordinates, value>>
FieldVariants ==
    {<<"click", Null, Null, Null>>,
     <<"select", Null, Null, Null>>,
     <<"select", Num(0), Null, Null>>,
     <<"scroll", Null, Null, Null>>,
     <<"scroll", Null, [t |-> "dict"], Null>>,
     <<"scroll", Null, [t |-> "dict", y |-> 5], Null>>,
     <<"scroll", Null, [t |-> "dict", x |-> 5], Null>>,
     <<"scroll", Null, Coordinates(0 - 1, 5), Null>>,
     <<"scroll", Null, Coordinates(5, 0 - 1), Null>>,
     <<"scroll", Null, Coordinates(10001, 5), Null>>,
     <<"scroll", Null, Coordinates(5, 10001), Null>>,
     <<"scroll", Null, Coordinates(10000, 0), Null>>,
     <<"scroll", Null, Coordinates(NaN, 5), Null>>,
     <<"type", Null, Null, Str("")>>,
     <<"type", Null, Null, Null>>,
     <<"type", Null, Null, Str("hello")>>}

\* n actions with sound times and ids; position sp is the variant fv, the
\* others are clicks
FieldActionList(n, sp, fv) ==
    [i \in 1..n |->
        IF i # sp
        THEN BrowserAction(Now + 100 * i, Str("click"), ActionId(i - 1),
                           Str("button"), Str("#buy"),
                           Str("https://example.com"), Str("Page"))
        ELSE [BrowserAction(Now + 100 * i, Str(fv[1]), ActionId(i - 1),
                            Str("input"), Str("#field"),
                            Str("https://example.com"), Str("Page"))
              EXCEPT !.option_index = fv[2], !.coordinates = fv[3],
                     !.value = fv[4]]]

\* trajectories in which one action has a type-specific field variant
FieldInputs ==
    {Trajectory(FieldActionList(n, sp, fv), tm) :
        n \in MinConverted..MaxShort + 1, sp \in 1..MaxShort,
        fv \in FieldVariants,
        tm \in {<<Now, Now + 5000, 5000>>, <<Now, Now, 0>>}}

ValidatorInputs == TimingInputs \cup FieldInputs

ValInit ==
    /\ vin \in ValidatorInputs
    /\ verdict = "none"
    /\ call = NoTrajectory /\ outcome = Idle
    /\ DatasetIdle
    /\ MainIdle
    /\ RngIdle

ValidateTrajectoryCall ==
    /\ verdict = "none"
    /\ verdict' = IF validate_trajectory(vin) THEN "True" ELSE "False"
    /\ UNCHANGED <<rngVars, mainVars, vin, trajVars, dsVars>>

ValNext == ValidateTrajectoryCall

ValSpec == ValInit /\ [][ValNext]_vars

----------------------------------------------------------------------------
(* Specification of deduplicate_trajectories applied to a list, and again  *)
(* to the list it returned (deduplication.py; generator.py 542-563)        *)

\* the two actions of a trajectory with the given content; idn and shift give
\* the identifiers and the clock
DedupActions(content, idn, shift) ==
    LET url == IF content = "a_http" THEN Str("http://example.com/")
               ELSE Str("https://example.com")
        a1 == [BrowserAction(Now + shift + 300, Str("navigate"), ActionId(idn),
                             Str(""), Str(""), url, Str("Home"))
               EXCEPT !.session_id = generate_id("session", idn),
                      !.tab_id = generate_id("tab", idn)]
        a2 == [BrowserAction(Now + shift + 900, Str("select"), ActionId(idn + 1),
                             Str("select"), Str("#size"), url, Str("Page"))
               EXCEPT !.session_id = generate_id("session", idn),
                      !.tab_id = generate_id("tab", idn),
                      !.option_index = IF content = "c" THEN Num(1) ELSE Num(0)]
    IN  <<a1, a2>>

DedupTrajectory(content, idn, shift) ==
    [Trajectory(DedupActions(content, idn, shift),
                <<Now + shift, Now + shift + 900, 900 + shift>>)
     EXCEPT !.trajectory_id = generate_id("traj", idn),
            !.session_id = generate_id("session", idn),
            !.goal = IF content = "b" THEN "add_to_cart" ELSE "purchase_product"]

\* A; A' (A with other identifiers and times); A written with another form of
\* the same URL; B and C with other content
DedupPool ==
    {DedupTrajectory("a", 100001, 0),
     DedupTrajectory("a", 100002, 7000),
     DedupTrajectory("a_http", 100003, 0),
     DedupTrajectory("b", 100004, 0),
     DedupTrajectory("c", 100005, 0)}

DedupInputs == SeqsUpTo(DedupPool, MaxDedup)

DedupInit ==
    /\ config \in {[max_workers |-> 0, dedup_enabled |-> b] : b \in BOOLEAN}
    /\ trajectories \in DedupInputs
    /\ pc = "dedup"
    /\ fut = <<>> /\ result = <<>> /\ collected = {}
    /\ failed_count = 0 /\ completed = 0 /\ ret = NoTrajectory
    /\ call = NoTrajectory /\ outcome = Idle
    /\ vin = NoTrajectory /\ verdict = "none"
    /\ MainIdle
    /\ RngIdle

\* deduplicate_trajectories applied to the list the first application returned
DeduplicateAgain ==
    /\ pc = "returned"
    /\ config.dedup_enabled
    /\ trajectories' = ret.trajectories
    /\ ret' = deduplicate_trajectories(ret.trajectories)
    /\ pc' = "again"
    /\ UNCHANGED <<rngVars, mainVars, trajVars, valVars, config, fut, result, collected,
                   failed_count, completed>>

DedupNext == DedupAndReturn \/ DeduplicateAgain

DedupSpec == DedupInit /\ [][DedupNext]_vars

----------------------------------------------------------------------------
(* Statistics Aggregator: compute_dataset_statistics (statistics.py).      *)
(* A value rounded to 2 places is held in hundredths, one rounded to 3     *)
(* places in thousandths; confidence is held in hundredths, a trajectory's *)
(* duration (seconds) in thousandths.                                      *)

RECURSIVE SumSeq(_)
SumSeq(s) == IF s = <<>> THEN 0 ELSE s[1] + SumSeq(Tail(s))

RECURSIVE Flatten(_)
Flatten(ss) == IF ss = <<>> THEN <<>> ELSE ss[1] \o Flatten(Tail(ss))

\* round(num / den, places), ties to even, in units of 10^-places
Round(num, den, places) ==
    LET scaled == num * (IF places = 2 THEN 100 ELSE 1000)
        q == scaled \div den
        r == scaled % den
    IN  IF 2 * r > den THEN q + 1
        ELSE IF 2 * r = den THEN q + (q % 2)
        ELSE q

\* dict(Counter(xs))
Counter(xs) ==
    [v \in {xs[i] : i \in DOMAIN xs} |->
        Cardinality({i \in DOMAIN xs : xs[i] = v})]

\* the timestamp differences of consecutive actions
Intervals(trajectory) ==
    [i \in 1..(Len(trajectory.actions) - 1) |->
        trajectory.actions[i + 1].timestamp - trajectory.actions[i].timestamp]

\* Trajectory.backtrack_count
backtrack_count(trajectory) ==
    Cardinality({i \in DOMAIN trajectory.actions :
        trajectory.actions[i].action_type \in {Str("back"), Str("forward")}})

\* Trajectory.error_count
error_count(trajectory) ==
    Cardinality({i \in DOMAIN trajectory.actions :
        ~trajectory.actions[i].element_visible
        \/ ~trajectory.actions[i].element_clickable})

\* sum(t.avg_action_interval for t in trajectories) as a fraction <<num, den>>
\* of milliseconds
RECURSIVE SumAvgInterval(_)
SumAvgInterval(trajs) ==
    IF trajs = <<>> THEN <<0, 1>>
    ELSE LET rest == SumAvgInterval(Tail(trajs))
             n == Len(trajs[1].actions)
         IN  IF n < 2 THEN rest
             ELSE <<SumSeq(Intervals(trajs[1])) * rest[2] + rest[1] * (n - 1),
                    (n - 1) * rest[2]>>

compute_dataset_statistics(trajs) ==
    IF trajs = <<>>
    THEN [n_trajectories |-> 0, n_actions |-> 0]
    ELSE
    LET n == Len(trajs)
        lengths == [i \in 1..n |-> Len(trajs[i].actions)]
        total_actions == SumSeq(lengths)
        all_actions == Flatten([i \in 1..n |-> trajs[i].actions])
        action_intervals == Flatten([i \in 1..n |-> Intervals(trajs[i])])
        goal_achieved_count ==
            Cardinality({i \in 1..n : Truthy(trajs[i].goal_achieved)})
        intentional_count ==
            Cardinality({i \in DOMAIN all_actions :
                            Truthy(all_actions[i].is_intentional)})
        errors ==
            Cardinality({i \in DOMAIN all_actions :
                            ~all_actions[i].element_visible
                            \/ ~all_actions[i].element_clickable})
        confidence == SumSeq([i \in DOMAIN all_actions |-> all_actions[i].confidence])
        sum_avg == SumAvgInterval(trajs)
        element_types ==
            SelectSeq([i \in DOMAIN all_actions |-> all_actions[i].element_type],
                      Truthy)
    IN  [n_trajectories |-> n,
         n_actions |-> total_actions,
         avg_trajectory_length |-> Round(total_actions, n, 2),
         trajectory_length_distribution |-> Counter(lengths),
         workflow_type_distribution |-> Counter([i \in 1..n |-> trajs[i].workflow_type]),
         user_type_distribution |-> Counter([i \in 1..n |-> trajs[i].user_type]),
         device_type_distribution |-> Counter([i \in 1..n |-> trajs[i].device_type]),
         browser_type_distribution |-> Counter([i \in 1..n |-> trajs[i].browser_type]),
         avg_trajectory_duration_seconds |->
             Round(SumSeq([i \in 1..n |-> trajs[i].duration]), n * 1000, 2),
         goal_achievement_rate |-> Round(goal_achieved_count, n, 3),
         action_type_distribution |->
             Counter([i \in DOMAIN all_actions |-> all_actions[i].action_type]),
         element_type_distribution |-> Counter(element_types),
         avg_action_interval_seconds |->
             IF action_intervals = <<>> THEN 0
             ELSE Round(SumSeq(action_intervals), Len(action_intervals) * 1000, 2),
         intentional_action_ratio |->
             IF all_actions = <<>> THEN 0
             ELSE Round(intentional_count, Len(all_actions), 3),
         error_rate |->
             IF all_actions = <<>> THEN 0 ELSE Round(errors, Len(all_actions), 3),
         avg_confidence |->
             IF all_actions = <<>> THEN 0
             ELSE Round(confidence, Len(all_actions) * 100, 3),
         avg_backtrack_per_trajectory |->
             Round(SumSeq([i \in 1..n |-> backtrack_count(trajs[i])]), n, 2),
         avg_action_count |-> Round(total_actions, n, 2),
         avg_action_interval_across_trajectories |->
             Round(sum_avg[1], sum_avg[2] * 1000 * n, 2),
         avg_error_count_per_trajectory |->
             Round(SumSeq([i \in 1..n |-> error_count(trajs[i])]), n, 2)]

----------------------------------------------------------------------------
(* Pipeline Driver: main (main.py 115-184) and DatasetWriter (writer.py).  *)
(* MainInit is the state in which main calls generate_dataset, the API key *)
(* found; the output format is the configured default, jsonl.              *)

\* main stopping at the validated list without looking at whether it is empty
ValidatedThenStatistics(valid) == "statistics"

\* main.py 145-147: sys.exit(1) when no trajectory passed validation
AfterValidation(valid) == IF valid = <<>> THEN "exited" ELSE "statistics"

\* main handing the whole returned list to the writer
UnvalidatedSelection(trajs) == trajs

\* a validator that repairs the times of the trajectories it rejects
RepairedRejects(trajs) ==
    LET Rejected(t) == ~validate_trajectory(t)
        rejected == SelectSeq(trajs, Rejected)
    IN  [i \in DOMAIN rejected |->
            [rejected[i] EXCEPT !.end_time = rejected[i].start_time + 1,
                                !.duration = 1]]

\* main.py 127-135: the trajectories for which validate_trajectory is True, in
\* their order
ValidSelection(trajs) == SelectSeq(trajs, validate_trajectory)

InvalidSelection(trajs) ==
    LET Rejected(t) == ~validate_trajectory(t) IN SelectSeq(trajs, Rejected)

\* main.py 125-147: the validation loop and the exit when nothing passed
ValidateData ==
    /\ mpc = "generate"
    /\ pc = "returned"
    /\ valid_trajectories' = ValidSelection(ret.trajectories)
    /\ invalid_trajectories' = InvalidSelection(ret.trajectories)
    /\ mpc' = AfterValidation(valid_trajectories')
    /\ exit_code' = IF mpc' = "exited" THEN "1" ELSE "none"
    /\ UNCHANGED <<rngVars, trajVars, valVars, dsVars, stats, files>>

\* main.py 149-158
ComputeStatistics ==
    /\ mpc = "statistics"
    /\ stats' = compute_dataset_statistics(valid_trajectories)
    /\ mpc' = "save"
    /\ UNCHANGED <<rngVars, trajVars, valVars, dsVars, valid_trajectories,
                   invalid_trajectories, files, exit_code>>

\* write_metadata's dict without its date and its copy of the configuration
Metadata(trajs) ==
    [total_trajectories |-> Len(trajs),
     total_actions |-> SumSeq([i \in DOMAIN trajs |-> Len(trajs[i].actions)])]

\* main.py 167-184: write, write_metadata, write_statistics; an exception of
\* any of them (a file that cannot be opened or written) ends main with
\* exit code 1 and leaves what was written before it.  A failing write leaves
\* a dataset file with the first k lines.
SaveDataset ==
    /\ mpc = "save"
    /\ \E failing \in {"none", "write", "write_metadata", "write_statistics"} :
          /\ \E k \in 0..Len(valid_trajectories) :
                /\ failing # "write" => k = Len(valid_trajectories)
                /\ files' =
                     [written |-> CASE failing = "none" ->
                                        {"dataset", "metadata", "statistics"}
                                    [] failing = "write_statistics" ->
                                        {"dataset", "metadata"}
                                    [] OTHER -> {"dataset"},
                      dataset |-> SubSeq(valid_trajectories, 1, k),
                      metadata |-> IF failing \in {"write", "write_metadata"}
                                   THEN NoTrajectory
                                   ELSE Metadata(valid_trajectories),
                      statistics |-> IF failing = "none" THEN stats
                                     ELSE NoTrajectory]
          /\ exit_code' = IF failing = "none" THEN "0" ELSE "1"
    /\ mpc' = "exited"
    /\ UNCHANGED <<rngVars, trajVars, valVars, dsVars, valid_trajectories,
                   invalid_trajectories, stats>>

MainInit ==
    /\ DatasetStart
    /\ valid_trajectories = <<>> /\ invalid_trajectories = <<>>
    /\ stats = NoTrajectory /\ files = NoFiles
    /\ exit_code = "none" /\ mpc = "generate"
    /\ RngIdle

MainNext == Next \/ ValidateData \/ ComputeStatistics \/ SaveDataset

MainSpec == MainInit /\ [][MainNext]_vars

----------------------------------------------------------------------------
(* Specification of compute_dataset_statistics applied to a list *)

\* a trajectory whose goal was missed, with a back action on a hidden element
StatsTrajectory ==
    LET t == DedupTrajectory("b", 100006, 0)
    IN  [t EXCEPT !.goal_achieved = Bool(FALSE),
                  !.actions = Append(t.actions,
                      [BrowserAction(Now + 2500, Str("back"), ActionId(100008),
                                     Str(""), Str(""), Str("https://example.com"),
                                     Str("Home"))
                       EXCEPT !.is_intentional = Bool(FALSE),
                              !.confidence = 55,
                              !.element_visible = FALSE])]

StatsInputs == SeqsUpTo(DedupPool \cup {StatsTrajectory}, MaxDedup)

StatsInit ==
    /\ valid_trajectories \in StatsInputs
    /\ mpc = "statistics"
    /\ invalid_trajectories = <<>>
    /\ stats = NoTrajectory /\ files = NoFiles /\ exit_code = "none"
    /\ call = NoTrajectory /\ outcome = Idle
    /\ vin = NoTrajectory /\ verdict = "none"
    /\ DatasetIdle
    /\ RngIdle

StatsNext == ComputeStatistics

StatsSpec == StatsInit /\ [][StatsNext]_vars

----------------------------------------------------------------------------
(* Specification of one _convert_action_to_browser_action call on a        *)
(* candidate record (generator.py 131-337)                                 *)

Absent == [t |-> "absent"]

\* the dict entry k: v, or no entry
Entry(k, v) == IF v = Absent THEN [x \in {} |-> Null] ELSE (k :> v)

\* candidate records whose action_type, context, duration, value and
\* element_selector are each absent, null or of some JSON type
ConvertRecords ==
    {Entry("action_type", ty) @@ Entry("context", ctx) @@ Entry("duration", dur)
        @@ Entry("value", val) @@ Entry("element_selector", sel)
        @@ [url |-> Str("https://example.com")] :
        ty \in {Absent, Str("navigate"), Str("click"), Str("type"),
                Str("scroll"), Str("select"), Str("submit"), Str("wait"),
                Str("hover")},
        ctx \in {Absent, Null, Str("Add to Cart")},
        dur \in {Absent, Null, Num(2), Str("abc")},
        val \in {Absent, Null, Str("hello world"), Num(5)},
        sel \in {Absent, Null, Str("#buy")}}

\* candidate records of every action type that carry element_visible and
\* element_clickable, each absent, true or false
FlagRecords ==
    {Entry("action_type", ty) @@ Entry("element_visible", ev)
        @@ Entry("element_clickable", ec)
        @@ [url |-> Str("https://example.com")] :
        ty \in {Str("navigate"), Str("click"), Str("type"), Str("scroll"),
                Str("select"), Str("submit"), Str("wait"), Str("hover")},
        ev \in {Absent, Bool(TRUE), Bool(FALSE)},
        ec \in {Absent, Bool(TRUE), Bool(FALSE)}}

ConvertInit ==
    /\ call \in {[action_data |-> r, user_type |-> u, rnd |-> d] :
                    r \in ConvertRecords \cup FlagRecords,
                    u \in {"power_user"}, d \in Draws}
    /\ outcome = Idle
    /\ vin = NoTrajectory /\ verdict = "none"
    /\ DatasetIdle
    /\ MainIdle
    /\ RngIdle

ConvertCall ==
    /\ outcome = Idle
    /\ outcome' = _convert_action_to_browser_action(call.action_data, Now,
                      generate_id("session", 100000), generate_id("tab", 100000),
                      ActionId(0), call.user_type, call.rnd)
    /\ UNCHANGED <<rngVars, mainVars, call, valVars, dsVars>>

ConvertNext == ConvertCall

ConvertSpec == ConvertInit /\ [][ConvertNext]_vars

----------------------------------------------------------------------------
(* Random draws of the pool tasks (generator.py 370-382, 414-416, 176-182; *)
(* utils.py 52).  Every draw is a call of a function of the module-level   *)
(* random source, seeded once in __init__ (generator.py 97-99) and shared  *)
(* by all worker threads.  Inside a call the source is advanced by one or  *)
(* more primitive steps; each primitive step is atomic, the call is not.   *)

\* the draws of one generate_trajectory call, by category: random.choices
\* (workflow), random.choice (goal, profile), random.randint (ids),
\* random.uniform (jitter)
DrawKinds == <<"workflow", "goal", "id", "jitter">>

\* random.choice and random.randint repeat the primitive until its value is
\* below the size of the range; random.choices and random.uniform use one
\* primitive
Repeats(kind) == kind \in {"goal", "id"}

\* the value at position pos of the stream of the seeded source, and the
\* size of the range a repeating draw accepts
StreamSpan == 8
RangeSize == 6
Stream(seed, pos) == (pos * 5 + seed) % StreamSpan

RngInit ==
    /\ config = [max_workers |-> MaxWorkers, dedup_enabled |-> FALSE]
    /\ fut = [i \in Tasks |-> "pending"]
    /\ result = <<>> /\ collected = {} /\ trajectories = <<>>
    /\ failed_count = 0 /\ completed = 0 /\ pc = "collect" /\ ret = NoTrajectory
    /\ call = NoTrajectory /\ outcome = Idle
    /\ vin = NoTrajectory /\ verdict = "none"
    /\ MainIdle
    /\ rng \in {[pos |-> 0, seed |-> s] : s \in {3, 6}}
    /\ draws = [i \in Tasks |-> [k |-> 1, in_call |-> FALSE, r |-> -1, vals |-> <<>>]]

Drawing(i) == fut[i] = "running" /\ draws[i].k <= Len(DrawKinds)

\* the task calls random.choices / choice / randint / uniform
EnterDraw(i) ==
    /\ Drawing(i)
    /\ ~draws[i].in_call
    /\ draws' = [draws EXCEPT ![i].in_call = TRUE, ![i].r = -1]
    /\ UNCHANGED <<rng, mainVars, trajVars, valVars, dsVars>>

\* one primitive step of the source inside the call
Primitive(i) ==
    /\ Drawing(i)
    /\ draws[i].in_call
    /\ draws[i].r = -1 \/ (Repeats(DrawKinds[draws[i].k]) /\ draws[i].r >= RangeSize)
    /\ draws' = [draws EXCEPT ![i].r = Stream(rng.seed, rng.pos)]
    /\ rng' = [rng EXCEPT !.pos = @ + 1]
    /\ UNCHANGED <<mainVars, trajVars, valVars, dsVars>>

\* the call returns the value drawn
ReturnDraw(i) ==
    /\ Drawing(i)
    /\ draws[i].in_call
    /\ draws[i].r # -1
    /\ ~(Repeats(DrawKinds[draws[i].k]) /\ draws[i].r >= RangeSize)
    /\ draws' = [draws EXCEPT ![i].in_call = FALSE, ![i].k = @ + 1,
                              ![i].vals = Append(@, draws[i].r)]
    /\ UNCHANGED <<rng, mainVars, trajVars, valVars, dsVars>>

\* the task has made its draws and its future is done
TaskDone(i) ==
    /\ fut[i] = "running"
    /\ draws[i].k > Len(DrawKinds)
    /\ fut' = [fut EXCEPT ![i] = "finished"]
    /\ UNCHANGED <<rngVars, mainVars, trajVars, valVars, config, result,
                   collected, trajectories, failed_count, completed, pc, ret>>

RngNext ==
    \E i \in Tasks :
        WorkerStart(i) \/ EnterDraw(i) \/ Primitive(i) \/ ReturnDraw(i) \/ TaskDone(i)

RngSpec == RngInit /\ [][RngNext]_vars

----------------------------------------------------------------------------
(* Specification of one call of a Temporal Behavior Model function         *)
(* (utils.py 126-210); durations in ms                                     *)

TemporalCalls ==
    {[fn |-> "get_decision_time", user_type |-> u, is_important |-> b, r |-> r] :
        u \in USER_TYPES, b \in BOOLEAN, r \in {"lo", "hi"}}
    \cup
    {[fn |-> "get_reading_time", user_type |-> u, content_complexity |-> c, r |-> r] :
        u \in USER_TYPES, c \in {"low", "medium", "high"}, r \in {"lo", "hi"}}
    \cup
    {[fn |-> "calculate_typing_time", user_type |-> u, text |-> t, r |-> r] :
        u \in USER_TYPES, t \in {"", "   ", "laptop", "hello", "hello world"},
        r \in {"lo", "hi"}}

TemporalResult(c) ==
    CASE c.fn = "get_decision_time" ->
             get_decision_time(c.user_type, c.is_important, c.r)
      [] c.fn = "get_reading_time" ->
             ReadingTime(c.user_type, c.content_complexity, c.r)
      [] c.fn = "calculate_typing_time" ->
             calculate_typing_time(c.text, get_typing_speed_wpm(c.user_type, c.r))

TemporalInit ==
    /\ call \in TemporalCalls
    /\ outcome = Idle
    /\ vin = NoTrajectory /\ verdict = "none"
    /\ DatasetIdle
    /\ MainIdle
    /\ RngIdle

TemporalCall ==
    /\ outcome = Idle
    /\ outcome' = Returned(TemporalResult(call))
    /\ UNCHANGED <<rngVars, mainVars, call, valVars, dsVars>>

TemporalNext == TemporalCall

TemporalSpec == TemporalInit /\ [][TemporalNext]_vars

----------------------------------------------------------------------------
(* Specification of deduplicate_trajectories applied to a trajectory and a *)
(* variant of it that differs in the spelling of one text field            *)
(* (deduplication.py 12-121)                                               *)

\* a navigate action and a type action with a value
NormTrajectory(idn) ==
    LET a1 == [BrowserAction(Now + 300, Str("navigate"), ActionId(0),
                             Str("input"), Str("#buy"), Str("https://example.com"),
                             Str("Home"))
               EXCEPT !.value = Str("laptop")]
        a2 == [BrowserAction(Now + 900, Str("type"), ActionId(1),
                             Str("input"), Str("div > a"), Str("https://example.com"),
                             Str("Home"))
               EXCEPT !.value = Str("laptop")]
    IN  [Trajectory(<<a1, a2>>, <<Now, Now + 900, 900>>)
         EXCEPT !.trajectory_id = generate_id("traj", idn)]

\* the spellings of a text that differ from it in letter case or in leading
\* and trailing whitespace only
Respellings(s) ==
    CASE s = "e_commerce" -> {"E_Commerce", " e_commerce "}
      [] s = "purchase_product" -> {"Purchase_Product", " purchase_product "}
      [] s = "navigate" -> {"Navigate", " navigate "}
      [] s = "input" -> {"Input", " input "}
      [] s = "#buy" -> {"#Buy", " #buy "}
      [] s = "Home" -> {"HOME", " Home "}
      [] s = "laptop" -> {"Laptop", " laptop "}
      [] s = "https://example.com" ->
             {"HTTPS://Example.com", " https://example.com "}
      [] OTHER -> {}

\* the same URL with the other protocol or a trailing slash
UrlRespellings(s) ==
    IF s = "https://example.com"
    THEN {"http://example.com", "https://example.com/"} ELSE {}

\* the same selector with more internal whitespace
SelectorRespellings(s) == IF s = "div > a" THEN {"div  >  a"} ELSE {}

ActionTextFields ==
    {"action_type", "element_type", "element_selector", "url", "page_title", "value"}

\* the trajectories that differ from t in the spelling of one text field of
\* the content object, with field naming that field
NormVariants(t) ==
    UNION {{[field |-> f, trajectory |-> [t EXCEPT ![f] = s]] :
               s \in Respellings(t[f])} :
           f \in {"workflow_type", "goal"}}
    \cup
    UNION {{[field |-> f, trajectory |-> [t EXCEPT !.actions[1][f] = Str(s)]] :
               s \in Respellings(t.actions[1][f].v)
                     \cup (IF f = "url" THEN UrlRespellings(t.actions[1][f].v) ELSE {})} :
           f \in ActionTextFields}
    \cup
    {[field |-> "element_selector",
      trajectory |-> [t EXCEPT !.actions[2].element_selector = Str(s)]] :
        s \in SelectorRespellings(t.actions[2].element_selector.v)}

NormInit ==
    /\ config \in {[max_workers |-> 0, dedup_enabled |-> b] : b \in BOOLEAN}
    /\ \E idn \in {100001, 100002}, order \in {1, 2} :
          \E v \in NormVariants(NormTrajectory(idn)) :
             LET w == [v.trajectory EXCEPT !.trajectory_id = generate_id("traj", idn + 10)]
             IN  trajectories = IF order = 1 THEN <<NormTrajectory(idn), w>>
                                ELSE <<w, NormTrajectory(idn)>>
    /\ pc = "dedup"
    /\ fut = <<>> /\ result = <<>> /\ collected = {}
    /\ failed_count = 0 /\ completed = 0 /\ ret = NoTrajectory
    /\ call = NoTrajectory /\ outcome = Idle
    /\ vin = NoTrajectory /\ verdict = "none"
    /\ MainIdle
    /\ RngIdle

NormNext == DedupAndReturn

NormSpec == NormInit /\ [][NormNext]_vars

----------------------------------------------------------------------------
(* Properties of one generate_trajectory call (TrajSpec) *)

TrajectoryReturned == outcome.ok

\* the candidates the conversion loop iterates over
CandidatesOf(c) ==
    LET structure == generate_trajectory_structure(c.llm, c.workflow_type, c.goal)
    IN  IF "actions" \in DOMAIN structure
        THEN Truncate(structure["actions"], ResolveNumActions(c))
        ELSE <<>>

\* C1: every returned Trajectory has between 3 and 10 actions, whatever the
\* configured min_actions / max_actions, the num_actions override and the
\* number of candidates the source returned.
C1_ActionCountIn3To10 ==
    TrajectoryReturned =>
        /\ Len(outcome.val.actions) >= 3
        /\ Len(outcome.val.actions) <= 10

\* C2: in every returned Trajectory the action timestamps are non-decreasing
\* along the action sequence.
C2_TimestampsNonDecreasing ==
    TrajectoryReturned =>
        \A i \in 2..Len(outcome.val.actions) :
            outcome.val.actions[i - 1].timestamp <= outcome.val.actions[i].timestamp

\* C3: every returned Trajectory has start_time strictly less than end_time.
C3_StartBeforeEnd ==
    TrajectoryReturned => outcome.val.start_time < outcome.val.end_time

\* C4: in every returned Trajectory the action_id values are pairwise
\* distinct, also when some candidates were skipped.
C4_ActionIdsDistinct ==
    TrajectoryReturned =>
        \A i, j \in 1..Len(outcome.val.actions) :
            i # j => outcome.val.actions[i].action_id # outcome.val.actions[j].action_id

\* a Trajectory was returned although a candidate in the middle of the list
\* failed conversion and was skipped
C4_Witness ==
    /\ TrajectoryReturned
    /\ Len(outcome.val.actions) < Len(CandidatesOf(call))
    /\ \E i \in 2..(Len(CandidatesOf(call)) - 1) :
           "action_type" \notin DOMAIN CandidatesOf(call)[i]

----------------------------------------------------------------------------
(* Properties of generate_dataset (Spec, FairSpec) *)

Succeeded(i) == fut[i] = "finished" /\ result[i].out.ok
Failed(i) == fut[i] = "finished" /\ ~result[i].out.ok

\* number of positions of list s that hold x
CountIn(s, x) == Cardinality({k \in 1..Len(s) : s[k] = x})

CollectionEnded == pc \in {"dedup", "returned"}

\* C5: every submitted task is collected exactly once, as a success or as a
\* counted failure: while collecting, the list holds exactly the trajectories
\* of the collected successful tasks and failed_count counts the collected
\* failed ones; when collection ends every task has been collected, so
\* len(trajectories) + failed_count = N and len(trajectories) <= N, and the
\* run never leaves the loop through an exception.
C5_EveryTaskCollectedOnce ==
    /\ pc # "raised"
    /\ failed_count = Cardinality({i \in collected : Failed(i)})
    /\ Len(trajectories) = Cardinality({i \in collected : Succeeded(i)})
    /\ \A i \in collected :
          Succeeded(i) =>
              CountIn(trajectories, result[i].out.val)
                = Cardinality({j \in collected :
                                 Succeeded(j) /\ result[j].out.val = result[i].out.val})
    /\ CollectionEnded =>
          /\ collected = Tasks
          /\ Len(trajectories) + failed_count = NTasks
          /\ Len(trajectories) <= NTasks

\* collection ended with a failed task and with the trajectory of a task that
\* was collected after the failure
C5_Witness ==
    /\ CollectionEnded
    /\ failed_count > 0
    /\ Len(trajectories) > 0
    /\ \E i, j \in Tasks : Failed(i) /\ Succeeded(j)

Returned_ == pc = "returned"

StatsKeys == {"original_count", "exact_duplicates_count", "near_duplicates_count",
              "final_count", "exact_duplicates_info", "near_duplicates_info"}

\* the returned value carries a failure count equal to N - len(trajectories)
ReturnsFailureCount ==
    \/ /\ "failed_count" \in DOMAIN ret
       /\ ret["failed_count"] = NTasks - Len(trajectories)
    \/ /\ "failed_count" \in DOMAIN ret.stats
       /\ ret.stats["failed_count"] = NTasks - Len(trajectories)

\* C6 (as stated): the value returned by generate_dataset(N) contains, besides
\* the list of trajectories, the number of failed attempts, equal to N minus
\* the number of trajectories produced before deduplication.
C6_ReturnsFailureCount == Returned_ => ReturnsFailureCount

\* C6 (amended): the value returned by generate_dataset(N) is the pair of the
\* trajectory list and the deduplication statistics; it holds no failure
\* count.  The statistics' original_count is the number of trajectories
\* produced before deduplication, which is N minus the number of failed
\* attempts, final_count is the length of the returned list, and the two
\* differ by exact_duplicates_count.
C6_ReturnsDedupStats ==
    Returned_ =>
        /\ DOMAIN ret = {"trajectories", "stats"}
        /\ DOMAIN ret.stats = StatsKeys
        /\ ret.stats.original_count = Len(trajectories)
        /\ ret.stats.original_count = NTasks - failed_count
        /\ ret.stats.final_count = Len(ret.trajectories)
        /\ ret.stats.original_count - ret.stats.final_count
             = ret.stats.exact_duplicates_count
        /\ ~config.dedup_enabled => ret.trajectories = trajectories

\* generate_dataset returned after one attempt failed and deduplication
\* removed a duplicate of another
C6_Witness ==
    /\ Returned_
    /\ failed_count > 0
    /\ config.dedup_enabled
    /\ ret.stats.exact_duplicates_count > 0

AllTasksDone == \A i \in Tasks : fut[i] = "finished"

\* C7: deduplication starts, and generate_dataset returns, only after all N
\* submitted tasks have finished or failed and have been collected; and if
\* every task eventually finishes or fails, generate_dataset eventually
\* returns.
C7_WaitsForAllThenReturns ==
    /\ [](CollectionEnded => (AllTasksDone /\ collected = Tasks))
    /\ <>Returned_

\* generate_dataset has returned with all tasks done, of which not all
\* succeeded
C7_Witness ==
    /\ Returned_
    /\ AllTasksDone
    /\ \E i \in Tasks : Failed(i)
    /\ completed > 0

\* the structure the action-structure source hands to generate_trajectory has
\* no "actions" key, or an empty actions list
NoActions(c) ==
    LET structure == generate_trajectory_structure(c.llm, c.workflow_type, c.goal)
    IN  \/ "actions" \notin DOMAIN structure
        \/ Len(structure["actions"]) = 0

NoActionsTasks(S) == {i \in S : fut[i] = "finished" /\ NoActions(result[i].call)}

\* C8: an attempt whose structure has no "actions" key or an empty actions
\* list fails with an error and emits no Trajectory; generate_dataset counts
\* each such failure when it collects it, and the other attempts still run and
\* are collected: collection ends with every task collected.
C8_NoActionsFailsAndIsCounted ==
    /\ \A i \in NoActionsTasks(Tasks) :
          /\ ~result[i].out.ok
          /\ result[i].out.err \in {"ValueError: missing 'actions' field",
                                    "ValueError: no actions"}
    /\ failed_count >= Cardinality(NoActionsTasks(collected))
    /\ Len(trajectories) <= Cardinality(collected \ NoActionsTasks(collected))
    /\ pc # "raised"
    /\ CollectionEnded =>
          /\ collected = Tasks
          /\ \A j \in Tasks \ NoActionsTasks(Tasks) :
                Succeeded(j) => CountIn(trajectories, result[j].out.val) > 0

\* collection ended with an attempt without "actions", an attempt with an
\* empty actions list and a successful attempt that finished after them
C8_Witness ==
    /\ CollectionEnded
    /\ \E i, j, k \in Tasks :
          /\ i < k /\ j < k
          /\ NoActions(result[i].call) /\ result[i].call.llm.kind = "json"
          /\ "actions" \notin DOMAIN result[i].call.llm.structure
          /\ NoActions(result[j].call) /\ result[j].call.llm.kind = "json"
          /\ "actions" \in DOMAIN result[j].call.llm.structure
          /\ Succeeded(k)

----------------------------------------------------------------------------
(* The too-few-actions rule of generate_trajectory (TrajSpec) *)

Called == outcome # Idle

\* candidate i of call c converts to a BrowserAction
Convertible(c, i) ==
    _convert_action_to_browser_action(CandidatesOf(c)[i], c.now, c.session_id,
                                      c.tab_id, ActionId(i - 1), c.user_type,
                                      c.rnds[i]).ok

SurvivorCount(c) ==
    Cardinality({i \in 1..Len(CandidatesOf(c)) : Convertible(c, i)})

\* C9: if fewer than 3 candidates convert, generate_trajectory raises and
\* returns no Trajectory, so no Trajectory with fewer than 3 actions is ever
\* returned; a source failure, answered by the single-action fallback
\* structure, ends this way.
C9_FewerThanThreeRaises ==
    Called =>
        /\ SurvivorCount(call) < 3 => ~TrajectoryReturned
        /\ TrajectoryReturned => Len(outcome.val.actions) >= 3
        /\ call.llm = LlmError => ~TrajectoryReturned

\* the source failed, its fallback structure gave one converted action, and
\* the call raised
C9_Witness ==
    /\ Called
    /\ call.llm = LlmError
    /\ call.min_actions <= call.max_actions
    /\ SurvivorCount(call) = 1
    /\ outcome = Raised("ValueError: too few valid actions")

----------------------------------------------------------------------------
(* The trajectory-level rules of validate_trajectory (ValSpec) *)

ValidatorCalled == verdict # "none"

ActionCountOk(t) == 3 <= Len(t.actions) /\ Len(t.actions) <= 10
StartBeforeEnd(t) == FLt(t.start_time, t.end_time)
DurationNonNegative(t) == FGe(t.duration, 0)
ActionIdsDistinct(t) ==
    \A i, j \in 1..Len(t.actions) :
        i # j => t.actions[i].action_id # t.actions[j].action_id
TimestampsNonDecreasing(t) ==
    \A i \in 2..Len(t.actions) :
        FLe(t.actions[i - 1].timestamp, t.actions[i].timestamp)

FiveRules(t) ==
    /\ ActionCountOk(t)
    /\ StartBeforeEnd(t)
    /\ DurationNonNegative(t)
    /\ ActionIdsDistinct(t)
    /\ TimestampsNonDecreasing(t)

\* C10: validate_trajectory returns True only if the action count is in
\* [3,10], start_time < end_time, duration >= 0, all action_ids are pairwise
\* distinct and the action timestamps are non-decreasing; it returns False
\* whenever one of the five is violated.
C10_TrueOnlyIfFiveRules ==
    ValidatorCalled =>
        /\ verdict = "True" => FiveRules(vin)
        /\ ~FiveRules(vin) => verdict = "False"

\* no time of the trajectory is NaN
AllTimesFinite(t) ==
    /\ t.start_time # NaN /\ t.end_time # NaN /\ t.duration # NaN
    /\ \A i \in 1..Len(t.actions) : t.actions[i].timestamp # NaN

\* on trajectories whose times are all finite the five rules are enforced
FiveRulesEnforcedOnFiniteTimes ==
    (ValidatorCalled /\ AllTimesFinite(vin)) =>
        (verdict = "True" => FiveRules(vin))

\* a trajectory was accepted whose second timestamp is NaN and whose
\* start_time is NaN
NaNAccepted ==
    /\ verdict = "True"
    /\ vin.start_time = NaN
    /\ vin.actions[2].timestamp = NaN

----------------------------------------------------------------------------
(* The type-specific rules of validate_action (ValSpec) *)

SelectWithoutOption(a) ==
    a.action_type = Str("select") /\ a.option_index = Null

\* coordinates absent (None or empty), lacking x or y, or out of [0, 10000]
CoordinatesUnacceptable(c) ==
    \/ c = Null
    \/ c = [t |-> "dict"]
    \/ "x" \notin DOMAIN c
    \/ "y" \notin DOMAIN c
    \/ FLt(c.x, 0) \/ FLt(c.y, 0)
    \/ FLt(10000, c.x) \/ FLt(10000, c.y)

ScrollWithBadCoordinates(a) ==
    a.action_type = Str("scroll") /\ CoordinatesUnacceptable(a.coordinates)

\* the trajectory with every type action's empty value replaced by a text
WithValuesFilled(t) ==
    [t EXCEPT !.actions =
        [i \in 1..Len(t.actions) |->
            IF t.actions[i].action_type = Str("type") /\ ~Truthy(t.actions[i].value)
            THEN [t.actions[i] EXCEPT !.value = Str("hello")]
            ELSE t.actions[i]]]

TypeWithEmptyValueAccepted ==
    /\ verdict = "True"
    /\ \E i \in 1..Len(vin.actions) :
          vin.actions[i].action_type = Str("type") /\ vin.actions[i].value = Str("")

----------------------------------------------------------------------------
(* Builder defaults and the Structural Validator (TrajSpec) *)

\* candidate i of the call is a scroll record without coordinates that was
\* converted
ScrollCandidateWithoutCoordinates(c, i) ==
    /\ "action_type" \in DOMAIN CandidatesOf(c)[i]
    /\ CandidatesOf(c)[i]["action_type"] = Str("scroll")
    /\ "coordinates" \notin DOMAIN CandidatesOf(c)[i]
    /\ Convertible(c, i)

\* C12: a trajectory assembled from a structure in which a scroll candidate
\* carries no coordinates is rejected by the Structural Validator.
C12_ScrollWithoutCoordinatesRejected ==
    (verdict # "none"
       /\ \E i \in 1..Len(CandidatesOf(call)) :
             ScrollCandidateWithoutCoordinates(call, i))
        => verdict = "False"

\* such a trajectory was accepted: its scroll action carries the builder's
\* coordinates
ScrollDefaultAccepted ==
    /\ verdict = "True"
    /\ \E i \in 1..Len(CandidatesOf(call)) :
          ScrollCandidateWithoutCoordinates(call, i)
    /\ \E i \in 1..Len(vin.actions) :
          /\ vin.actions[i].action_type = Str("scroll")
          /\ vin.actions[i].coordinates.x = 0
          /\ vin.actions[i].coordinates.y \in 100..500

----------------------------------------------------------------------------
(* Properties of deduplication (DedupSpec) *)

\* deduplicate_trajectories has been applied once to the list `trajectories`
DedupApplied == pc = "returned" /\ config.dedup_enabled

Fp(t) == compute_trajectory_fingerprint(t)

\* positions of L that hold the first trajectory of their fingerprint
FirstSeen(L) == {i \in 1..Len(L) : \A j \in 1..(i - 1) : Fp(L[j]) # Fp(L[i])}

\* the k-th smallest element of the set I of positions
KthOf(I, k) == CHOOSE i \in I : Cardinality({j \in I : j <= i}) = k

\* the position of the first trajectory of L with the fingerprint of L[i]
FirstWith(L, i) == CHOOSE j \in FirstSeen(L) : Fp(L[j]) = Fp(L[i])

\* C13: deduplicate_trajectories returns the order-preserving subsequence of
\* its input made of the first trajectory of each fingerprint; every later
\* trajectory of a fingerprint is dropped and gets one duplicate record, in
\* input order, whose duplicate_of is the trajectory_id of the kept one.
C13_FirstSeenKeptInOrder ==
    DedupApplied =>
        LET L == trajectories
            O == ret.trajectories
            info == ret.stats.exact_duplicates_info
            Dropped == (1..Len(L)) \ FirstSeen(L)
        IN  /\ Len(O) = Cardinality(FirstSeen(L))
            /\ \A k \in 1..Len(O) : O[k] = L[KthOf(FirstSeen(L), k)]
            /\ Len(info) = Cardinality(Dropped)
            /\ \A k \in 1..Len(info) :
                  LET d == KthOf(Dropped, k)
                  IN  /\ info[k].trajectory_id = L[d].trajectory_id
                      /\ info[k].duplicate_of = L[FirstWith(L, d)].trajectory_id
                      /\ info[k].fingerprint = Fp(L[d])

\* the input was [A, B, A'], the output is [A, B] and the one record names A'
\* as duplicate of A
C13_Witness ==
    /\ DedupApplied
    /\ trajectories = <<DedupTrajectory("a", 100001, 0),
                        DedupTrajectory("b", 100004, 0),
                        DedupTrajectory("a", 100002, 7000)>>
    /\ ret.trajectories = <<DedupTrajectory("a", 100001, 0),
                            DedupTrajectory("b", 100004, 0)>>
    /\ Len(ret.stats.exact_duplicates_info) = 1
    /\ ret.stats.exact_duplicates_info[1].trajectory_id = "traj_100002"
    /\ ret.stats.exact_duplicates_info[1].duplicate_of = "traj_100001"

\* C14: deduplication is idempotent: applied to the list it returned, it
\* returns that same list and counts no exact duplicate.
C14_DedupIdempotent ==
    pc = "again" =>
        /\ ret.trajectories = trajectories
        /\ ret.stats.exact_duplicates_count = 0
        /\ ret.stats.exact_duplicates_info = <<>>
        /\ ret.stats.final_count = ret.stats.original_count

\* the second application ran on a list from which the first had removed a
\* duplicate, and which still holds two trajectories
C14_Witness ==
    /\ pc = "again"
    /\ Len(trajectories) = 2
    /\ Fp(trajectories[1]) # Fp(trajectories[2])
    /\ ret.trajectories = trajectories

\* the trajectory with its identifiers and times replaced by fixed values
WithoutIdsAndTimes(t) ==
    [t EXCEPT !.trajectory_id = "", !.session_id = "",
              !.start_time = 0, !.end_time = 0, !.duration = 0,
              !.actions = [i \in 1..Len(t.actions) |->
                              [t.actions[i] EXCEPT !.action_id = "", !.tab_id = "",
                                                   !.session_id = "",
                                                   !.timestamp = 0]]]

\* C15: two trajectories that differ only in trajectory_id, session_id,
\* action_id / tab_id values, action timestamps, start_time, end_time or
\* duration have the same fingerprint.
C15_FingerprintIgnoresIdsAndTimes ==
    \A i, j \in 1..Len(trajectories) :
        WithoutIdsAndTimes(trajectories[i]) = WithoutIdsAndTimes(trajectories[j])
            => Fp(trajectories[i]) = Fp(trajectories[j])

\* the list holds two trajectories that differ in identifiers and times only,
\* and the second was dropped as a duplicate of the first
C15_Witness ==
    /\ DedupApplied
    /\ \E i, j \in 1..Len(trajectories) :
          /\ i < j
          /\ trajectories[i] # trajectories[j]
          /\ trajectories[i].trajectory_id # trajectories[j].trajectory_id
          /\ trajectories[i].start_time # trajectories[j].start_time
          /\ WithoutIdsAndTimes(trajectories[i]) = WithoutIdsAndTimes(trajectories[j])
          /\ \E k \in 1..Len(ret.stats.exact_duplicates_info) :
                ret.stats.exact_duplicates_info[k].trajectory_id
                    = trajectories[j].trajectory_id

\* C16: the returned statistics satisfy original_count = len(input),
\* final_count = len(returned list) and original_count = final_count +
\* exact_duplicates_count, with near_duplicates_count 0 and
\* near_duplicates_info empty; with deduplication disabled
\* exact_duplicates_count is 0 and the list is returned unchanged.
C16_StatsConsistent ==
    pc = "returned" =>
        /\ ret.stats.original_count = Len(trajectories)
        /\ ret.stats.final_count = Len(ret.trajectories)
        /\ ret.stats.original_count
             = ret.stats.final_count + ret.stats.exact_duplicates_count
        /\ ret.stats.exact_duplicates_count = Len(ret.stats.exact_duplicates_info)
        /\ ret.stats.near_duplicates_count = 0
        /\ ret.stats.near_duplicates_info = <<>>
        /\ ~config.dedup_enabled =>
              /\ ret.stats.exact_duplicates_count = 0
              /\ ret.trajectories = trajectories

\* statistics were returned for a list of three from which two duplicates
\* were removed
C16_Witness ==
    /\ pc = "returned"
    /\ config.dedup_enabled
    /\ ret.stats.original_count = 3
    /\ ret.stats.exact_duplicates_count = 2
    /\ ret.stats.final_count = 1

----------------------------------------------------------------------------
(* Properties of compute_dataset_statistics (StatsSpec) *)

StatisticsComputed == mpc = "save"

\* the keys of the rates and means of the result
RateKeys ==
    {"goal_achievement_rate", "error_rate", "intentional_action_ratio",
     "avg_confidence", "avg_action_interval_seconds",
     "avg_backtrack_per_trajectory", "avg_trajectory_duration_seconds"}

\* C17: applied to an empty list compute_dataset_statistics returns a result
\* in which goal_achievement_rate, error_rate, intentional_action_ratio,
\* avg_confidence, avg_action_interval_seconds, avg_backtrack_per_trajectory
\* and avg_trajectory_duration_seconds are present with the value 0.
C17_EmptyDatasetRatesZero ==
    (StatisticsComputed /\ valid_trajectories = <<>>) =>
        \A k \in RateKeys : k \in DOMAIN stats /\ stats[k] = 0

\* what the code returns for the empty list: the two counts and no rate
EmptyResultHasCountsOnly ==
    /\ StatisticsComputed
    /\ valid_trajectories = <<>>
    /\ DOMAIN stats = {"n_trajectories", "n_actions"}

\* for a list that is not empty every rate is present
RatesPresentWhenNotEmpty ==
    (StatisticsComputed /\ valid_trajectories # <<>>) =>
        RateKeys \subseteq DOMAIN stats

----------------------------------------------------------------------------
(* Properties of main (MainSpec) *)

Validated == mpc \in {"statistics", "save", "exited"}

NothingWritten == files = NoFiles

\* C18: when no trajectory is left after generation, deduplication and
\* validation, main ends with exit code 1, no statistics are computed and no
\* dataset, metadata or statistics file is written; a run that ends with
\* exit code 0 has written a dataset that is not empty.
C18_NoSurvivorNoOutput ==
    /\ (Validated /\ valid_trajectories = <<>>) =>
          /\ mpc = "exited"
          /\ exit_code = "1"
          /\ stats = NoTrajectory
          /\ NothingWritten
    /\ exit_code = "0" =>
          /\ "dataset" \in files.written
          /\ files.dataset # <<>>

\* main has ended although trajectories were generated: every one of them
\* was rejected by the validator
C18_Witness ==
    /\ mpc = "exited"
    /\ valid_trajectories = <<>>
    /\ invalid_trajectories # <<>>
    /\ exit_code = "1"

\* the trajectories some task of generate_dataset returned
Generated ==
    {result[i].out.val : i \in {j \in Tasks : result[j].out.ok}}

DatasetWritten == "dataset" \in files.written

\* C19: every trajectory of the written dataset is one that a task
\* generated, unchanged, and that validate_trajectory accepts; the dataset is
\* a prefix of the accepted trajectories of the returned list, in their order;
\* no rejected trajectory is in it; with deduplication enabled no two written
\* trajectories have the same fingerprint.
C19_OnlyValidatedWritten ==
    DatasetWritten =>
        /\ \A i \in DOMAIN files.dataset :
              /\ validate_trajectory(files.dataset[i])
              /\ files.dataset[i] \in Generated
              /\ \A j \in DOMAIN invalid_trajectories :
                    invalid_trajectories[j] # files.dataset[i]
        /\ Len(files.dataset) <= Len(ValidSelection(ret.trajectories))
        /\ files.dataset
             = SubSeq(ValidSelection(ret.trajectories), 1, Len(files.dataset))
        /\ Len(valid_trajectories) + Len(invalid_trajectories)
             = Len(ret.trajectories)
        /\ config.dedup_enabled =>
              \A i, j \in DOMAIN files.dataset :
                  Fp(files.dataset[i]) = Fp(files.dataset[j]) => i = j

\* a run with deduplication wrote its dataset after a duplicate was removed
\* and a rejected trajectory was left out
C19_Witness ==
    /\ exit_code = "0"
    /\ config.dedup_enabled
    /\ files.dataset # <<>>
    /\ invalid_trajectories # <<>>
    /\ ret.stats.exact_duplicates_count > 0

\* a run with deduplication wrote two trajectories of different content
TwoDistinctWritten ==
    /\ exit_code = "0"
    /\ config.dedup_enabled
    /\ Len(files.dataset) = 2

----------------------------------------------------------------------------
(* Properties of one conversion call (ConvertSpec) *)

Converted == outcome # Idle

HasActionType == "action_type" \in DOMAIN call.action_data

\* C20: _convert_action_to_browser_action raises only when the record has no
\* action_type key; for a record with an action_type a BrowserAction is
\* returned, whatever its context, duration, value and selector.
C20_RaisesOnlyWithoutActionType ==
    Converted => (HasActionType => outcome.ok)

\* a record without action_type makes the conversion raise
MissingTypeRaises ==
    (Converted /\ ~HasActionType) => ~outcome.ok

\* a click record whose context is null made the conversion raise
NullContextClickRaised ==
    /\ Converted
    /\ HasActionType
    /\ call.action_data["action_type"] = Str("click")
    /\ "context" \in DOMAIN call.action_data
    /\ call.action_data["context"] = Null
    /\ ~outcome.ok

\* the conversion raises exactly on: a record without action_type; a click
\* or submit record with a null context; a select record with a null context
\* whose selector has to be looked up while the element source fails; a type
\* record whose value is a number; a wait record whose duration is no number
RaisesExactlyOnIllTypedFields ==
    Converted =>
        LET r == call.action_data
            IsNull(k) == k \in DOMAIN r /\ r[k] = Null
        IN  ~outcome.ok <=>
              \/ ~HasActionType
              \/ HasActionType /\
                   \/ r["action_type"] \in {Str("click"), Str("submit")}
                        /\ IsNull("context")
                   \/ r["action_type"] = Str("select") /\ IsNull("context")
                        /\ ~Truthy(Get(r, "element_selector", Null))
                        /\ call.rnd.src = "fail"
                   \/ r["action_type"] = Str("type")
                        /\ "value" \in DOMAIN r /\ r["value"].t = "num"
                   \/ r["action_type"] = Str("wait")
                        /\ "duration" \in DOMAIN r
                        /\ r["duration"].t \notin {"num", "bool"}

\* the same call with the element-data source answering
WithSourceAnswering ==
    _convert_action_to_browser_action(call.action_data, Now,
        generate_id("session", 100000), generate_id("tab", 100000),
        ActionId(0), call.user_type, [call.rnd EXCEPT !.src = "ok"])

\* a click, type or select record without a usable selector
NeedsElementData ==
    /\ HasActionType
    /\ call.action_data["action_type"] \in {Str("click"), Str("type"), Str("select")}
    /\ ~Truthy(Get(call.action_data, "element_selector", Null))

\* C21: for a click, type or select record without a selector, a failing
\* element-data source never makes the construction fail: whenever the
\* conversion raises with the source failing, it raises as well with the
\* source answering; this for every context, a null one included.
C21_ElementSourceFailureNotFatal ==
    (Converted /\ NeedsElementData /\ call.rnd.src = "fail" /\ ~outcome.ok)
        => ~WithSourceAnswering.ok

\* a select record with a null context converts when the source answers and
\* raises when it fails
SelectNullContextFatal ==
    /\ Converted /\ NeedsElementData
    /\ call.action_data["action_type"] = Str("select")
    /\ call.rnd.src = "fail"
    /\ ~outcome.ok
    /\ WithSourceAnswering.ok

\* with a context that is a string, or absent, the fallback selector is used
FallbackWhenContextIsText ==
    (Converted /\ NeedsElementData /\ call.rnd.src = "fail"
       /\ Get(call.action_data, "context", Str("")).t = "str"
       /\ WithSourceAnswering.ok)
        => /\ outcome.ok
           /\ outcome.val.element_selector.t = "str"
           /\ outcome.val.element_selector # Str("#llm-selector")

----------------------------------------------------------------------------
(* Properties of the random draws of the pool tasks (RngSpec) *)

InCall(i) == i \in DOMAIN draws /\ draws[i].in_call

\* C22: pool tasks never draw from the one shared random source without
\* protection: no two tasks are inside a call of the shared source at the
\* same time (each draws from a source of its own or with exclusive access).
C22_DrawsExclusive ==
    \A i, j \in DOMAIN draws : (InCall(i) /\ InCall(j)) => i = j

\* the values of a task that makes its draws alone, from position pos on
RECURSIVE SoloVals(_, _, _)
SoloVals(seed, pos, k) ==
    IF k > Len(DrawKinds) THEN <<>>
    ELSE IF Repeats(DrawKinds[k]) /\ Stream(seed, pos) >= RangeSize
         THEN SoloVals(seed, pos + 1, k)
         ELSE <<Stream(seed, pos)>> \o SoloVals(seed, pos + 1, k + 1)

\* the first task was the first to draw, and finished with values that are
\* not those the seed gives a task drawing alone: another task drew in
\* between
DrawsDependOnSchedule ==
    /\ draws # <<>>
    /\ fut[1] = "finished"
    /\ draws[1].vals[1] = Stream(rng.seed, 0)
    /\ draws[1].vals # SoloVals(rng.seed, 0, 1)

\* each primitive step is atomic: the position of the source counts them
PrimitiveStepsCounted ==
    draws # <<>> =>
        rng.pos >= SumSeq([i \in DOMAIN draws |-> Len(draws[i].vals)])

----------------------------------------------------------------------------
(* Frame of the validator, the statistics and the deduplication (MainSpec) *)

Range(s) == {s[i] : i \in DOMAIN s}

\* C23: validate_trajectory, compute_dataset_statistics and
\* deduplicate_trajectories leave their input list and every trajectory in it
\* unchanged: the deduplicated list holds trajectories of the input list as
\* they were, the validated and the rejected trajectories are those of the
\* returned list as they were (a rejected one is not repaired), and the list
\* handed to the statistics is the same afterwards.
C23_InputsUnchanged ==
    [][/\ (pc = "dedup" /\ pc' = "returned") =>
             /\ trajectories' = trajectories
             /\ Range(ret'.trajectories) \subseteq Range(trajectories)
       /\ (mpc = "generate" /\ mpc' # "generate") =>
             /\ ret' = ret
             /\ Range(valid_trajectories') \subseteq Range(ret.trajectories)
             /\ Range(invalid_trajectories') \subseteq Range(ret.trajectories)
             /\ Len(valid_trajectories') + Len(invalid_trajectories')
                  = Len(ret.trajectories)
       /\ (mpc = "statistics" /\ mpc' = "save") =>
             /\ valid_trajectories' = valid_trajectories
             /\ invalid_trajectories' = invalid_trajectories
             /\ ret' = ret
      ]_vars

\* the three functions have run on a list with a duplicate and a trajectory
\* the validator rejected
C23_Witness ==
    /\ mpc = "save"
    /\ config.dedup_enabled
    /\ ret.stats.exact_duplicates_count > 0
    /\ invalid_trajectories # <<>>
    /\ stats # NoTrajectory

----------------------------------------------------------------------------
(* Properties of the Temporal Behavior Model functions (TemporalSpec) *)

\* C24: get_decision_time, get_reading_time and calculate_typing_time return
\* a strictly positive duration for every user type, every importance and
\* complexity setting, every text (an empty one included) and every typing
\* speed of the profile ranges.
C24_DurationsPositive ==
    outcome.ok => outcome.val > 0

\* calculate_typing_time returned 0 for the empty text
TypingTimeOfEmptyTextIsZero ==
    /\ outcome.ok
    /\ call.fn = "calculate_typing_time"
    /\ call.text = ""
    /\ outcome.val = 0

\* the duration is positive in every case but a text without a word
PositiveButForTextWithoutWords ==
    (outcome.ok /\ outcome.val <= 0) =>
        /\ call.fn = "calculate_typing_time"
        /\ call.text \in {"", "   "}
        /\ outcome.val = 0

----------------------------------------------------------------------------
(* Properties of the conversion loop of generate_trajectory (TrajSpec) *)

\* the position of the k-th candidate of call c that converts
KthSurvivor(c, k) ==
    CHOOSE i \in 1..Len(CandidatesOf(c)) :
        /\ Convertible(c, i)
        /\ Cardinality({j \in 1..i : Convertible(c, j)}) = k

\* the offset the conversion of candidate i adds to the cursor
OffsetOf(c, i) == TimeOffset(CandidatesOf(c)[i], c.user_type, c.rnds[i]).val

\* C25: a candidate whose conversion raises is skipped, the timestamp cursor
\* stays at the last converted action and the later candidates are still
\* converted: the actions of the returned trajectory are the candidates that
\* convert, in candidate order (ids by candidate position), each stamped at
\* the timestamp of the previous converted action plus its own offset, the
\* first relative to start_time; end_time is the last of them.
C25_FailedCandidatesSkipped ==
    TrajectoryReturned =>
        LET t == outcome.val
            n == Len(t.actions)
        IN  /\ n = SurvivorCount(call)
            /\ \A k \in 1..n :
                  LET i == KthSurvivor(call, k)
                      prev == IF k = 1 THEN t.start_time
                              ELSE t.actions[k - 1].timestamp
                  IN  /\ t.actions[k].action_id = ActionId(i - 1)
                      /\ t.actions[k].action_type = CandidatesOf(call)[i]["action_type"]
                      /\ t.actions[k].timestamp = prev + OffsetOf(call, i)
            /\ t.end_time = t.actions[n].timestamp

\* a trajectory was returned although a candidate between two converted ones
\* raised
C25_Witness ==
    /\ TrajectoryReturned
    /\ \E i, j, k \in 1..Len(CandidatesOf(call)) :
          /\ i < j /\ j < k
          /\ Convertible(call, i) /\ ~Convertible(call, j) /\ Convertible(call, k)
          /\ OffsetOf(call, k) > 0

----------------------------------------------------------------------------
(* Properties of the fingerprint under respelling of text fields (NormSpec) *)

\* the field in whose spelling the two trajectories of the list differ
RespelledField ==
    LET t == trajectories[1]
        w == trajectories[2]
    IN  IF t.workflow_type # w.workflow_type THEN "workflow_type"
        ELSE IF t.goal # w.goal THEN "goal"
        ELSE CHOOSE f \in ActionTextFields :
                \E i \in 1..Len(t.actions) : t.actions[i][f] # w.actions[i][f]

RespelledPair == pc = "returned" /\ Len(trajectories) = 2 /\ call = NoTrajectory /\ mpc = "idle" /\ fut = <<>>

\* C26: two trajectories that differ only in letter case or leading and
\* trailing whitespace of a text field of the content object (workflow_type,
\* goal, action_type, element_type, element_selector, url, page_title,
\* value), in the protocol or a trailing slash of a url, or in the internal
\* whitespace of a selector, have the same fingerprint.
C26_FingerprintIgnoresSpelling ==
    RespelledPair => Fp(trajectories[1]) = Fp(trajectories[2])

\* two trajectories that differ in the letter case of goal only were both
\* kept by the deduplication
GoalCaseKeptApart ==
    /\ RespelledPair
    /\ config.dedup_enabled
    /\ RespelledField = "goal"
    /\ Len(ret.trajectories) = 2

\* the fingerprint ignores the spelling of element_selector, url, page_title
\* and value, and of no other field
OnlyFourFieldsNormalized ==
    RespelledPair =>
        (Fp(trajectories[1]) = Fp(trajectories[2])
            <=> RespelledField \in {"element_selector", "url", "page_title", "value"})

\* a type record that carries neither value nor value_hint
TypeWithoutValue ==
    /\ HasActionType
    /\ call.action_data["action_type"] = Str("type")
    /\ "value" \notin DOMAIN call.action_data
    /\ "value_hint" \notin DOMAIN call.action_data

\* C27: a type record that carries neither value nor value_hint is converted
\* into a type action whose value is the placeholder test_<field_type>,
\* whatever the external sources return.
C27_TypeWithoutValueGetsPlaceholder ==
    (Converted /\ TypeWithoutValue)
        => /\ outcome.ok
           /\ outcome.val.action_type = Str("type")
           /\ outcome.val.value =
                Str(TestPlaceholder(Get(call.action_data, "field_type", Str("text")).v))

\* a type record without value was given the text the value source returned
ValueTakenFromSource ==
    /\ Converted /\ TypeWithoutValue
    /\ call.rnd.src = "ok"
    /\ outcome.ok
    /\ outcome.val.value = Str("laptop")

\* a type record without value gets what generate_text_input_value returns:
\* the source's text, or its own fallback when the source fails
TypeWithoutValueAsksSource ==
    (Converted /\ TypeWithoutValue)
        => /\ outcome.ok
           /\ outcome.val.value =
                generate_text_input_value(
                    Get(call.action_data, "field_type", Str("text")), call.rnd.src)
           /\ call.rnd.src = "fail" => outcome.val.value = Str(TextFallback("text"))

\* C28: when a record carries element_visible or element_clickable, the
\* BrowserAction built from it has exactly those flag values, for every
\* action type.
C28_FlagsTakenFromRecord ==
    (Converted /\ outcome.ok) =>
        LET r == call.action_data
        IN  /\ "element_visible" \in DOMAIN r
                => outcome.val.element_visible = PyBool(r["element_visible"])
            /\ "element_clickable" \in DOMAIN r
                => outcome.val.element_clickable = PyBool(r["element_clickable"])

\* a submit record with element_visible false was built as a visible action
SubmitFlagIgnored ==
    /\ Converted /\ outcome.ok
    /\ call.action_data["action_type"] = Str("submit")
    /\ "element_visible" \in DOMAIN call.action_data
    /\ call.action_data["element_visible"] = Bool(FALSE)
    /\ outcome.val.element_visible = TRUE

\* the flags of the record are taken over for click and type records, and
\* for these only: every other type keeps the flags of its factory
FlagsTakenForClickAndTypeOnly ==
    (Converted /\ outcome.ok) =>
        LET r == call.action_data
            ty == r["action_type"]
            without == _convert_action_to_browser_action(
                           [k \in DOMAIN r \ {"element_visible", "element_clickable"} |-> r[k]],
                           Now, generate_id("session", 100000),
                           generate_id("tab", 100000), ActionId(0),
                           call.user_type, call.rnd).val
        IN  IF ty \in {Str("click"), Str("type")}
            THEN /\ "element_visible" \in DOMAIN r
                     => outcome.val.element_visible = PyBool(r["element_visible"])
                 /\ "element_clickable" \in DOMAIN r
                     => outcome.val.element_clickable = PyBool(r["element_clickable"])
            ELSE /\ outcome.val.element_visible = without.element_visible
                 /\ outcome.val.element_clickable = without.element_clickable

----------------------------------------------------------------------------
(* Properties of trajectory ids and of validity under deduplication        *)
(* (Spec, MainSpec)                                                        *)

\* the positions of the returned list that hold the trajectory_id id
RetainedWithId(id) ==
    {i \in DOMAIN ret.trajectories : ret.trajectories[i].trajectory_id = id}

\* C29: the trajectories returned by one generate_dataset call have pairwise
\* distinct trajectory_id values, and the duplicate_of of every duplicate
\* record names exactly one returned trajectory.
C29_TrajectoryIdsDistinct ==
    pc = "returned" =>
        /\ \A i, j \in DOMAIN ret.trajectories :
              i # j => ret.trajectories[i].trajectory_id
                         # ret.trajectories[j].trajectory_id
        /\ \A k \in DOMAIN ret.stats.exact_duplicates_info :
              Cardinality(RetainedWithId(
                  ret.stats.exact_duplicates_info[k].duplicate_of)) = 1

\* two returned trajectories of different content carry one trajectory_id,
\* and a duplicate record points at both
DuplicateOfAmbiguous ==
    /\ pc = "returned"
    /\ config.dedup_enabled
    /\ \E k \in DOMAIN ret.stats.exact_duplicates_info :
          \E i, j \in RetainedWithId(ret.stats.exact_duplicates_info[k].duplicate_of) :
             /\ i # j
             /\ Fp(ret.trajectories[i]) # Fp(ret.trajectories[j])

\* every duplicate record names, by duplicate_of, a returned trajectory of
\* its own fingerprint: the first one seen
DuplicateOfNamesFirstSeen ==
    pc = "returned" =>
        \A k \in DOMAIN ret.stats.exact_duplicates_info :
            LET d == ret.stats.exact_duplicates_info[k]
            IN  \E i \in RetainedWithId(d.duplicate_of) :
                   /\ Fp(ret.trajectories[i]) = d.fingerprint
                   /\ \A j \in DOMAIN ret.trajectories :
                         Fp(ret.trajectories[j]) = d.fingerprint => j = i

\* main has ended after writing the dataset, its metadata and its statistics
FinalDatasetWritten == mpc = "exited" /\ exit_code = "0"

\* C30: for every fingerprint of which a generated trajectory passes
\* validate_trajectory, the dataset written by main holds a trajectory of that
\* fingerprint.
C30_ValidNeverLostToInvalidDuplicate ==
    FinalDatasetWritten =>
        \A t \in Generated :
            validate_trajectory(t) =>
                \E k \in DOMAIN files.dataset : Fp(files.dataset[k]) = Fp(t)

\* a generated trajectory passes validation, the trajectory kept for its
\* fingerprint was rejected, and the written dataset has none of that
\* fingerprint
ValidLostToInvalidDuplicate ==
    /\ FinalDatasetWritten
    /\ \E t \in Generated :
          /\ validate_trajectory(t)
          /\ \E k \in DOMAIN invalid_trajectories :
                Fp(invalid_trajectories[k]) = Fp(t)
          /\ \A k \in DOMAIN files.dataset : Fp(files.dataset[k]) # Fp(t)

\* a valid fingerprint is missing from the written dataset only when
\* deduplication kept a rejected trajectory of that fingerprint
ValidLostOnlyToKeptInvalid ==
    FinalDatasetWritten =>
        \A t \in Generated :
            (validate_trajectory(t)
               /\ \A k \in DOMAIN files.dataset : Fp(files.dataset[k]) # Fp(t))
              => /\ config.dedup_enabled
                 /\ \E k \in DOMAIN invalid_trajectories :
                       Fp(invalid_trajectories[k]) = Fp(t)

====
